---------------------------- MODULE Spec2Model ----------------------------
(***************************************************************************)
(* A model of the acquisition-and-cache subsystem of SaudiMarketScraper:   *)
(* the date-keyed snapshot cache (storage_manager.py), the dataclasses and *)
(* their JSON form (config.py), the instrument scraper (scraper.py) and    *)
(* the reconciliation run (main.py).                                       *)
(*                                                                         *)
(* Python values are dynamically typed, so every value carries its type:   *)
(* a one-field record named after the type.  A dataclass instance is       *)
(* [class, fields].                                                        *)
(***************************************************************************)
EXTENDS Integers, Sequences, FiniteSets, TLC

(***************************************************************************)
(* Bounds of the model.                                                    *)
(***************************************************************************)
\* The calendar days of the model are BaseDay .. BaseDay + MaxDay, counted in
\* days since 1970-01-01; 19720 is 2023-12-29, so the window crosses a month
\* and a year boundary.
BaseDay == 19720
MaxDay == 4
\* keep_last_files_count ranges over 0 .. MaxKeep.
MaxKeep == 3
\* The program is invoked at most MaxRuns + 1 times.
MaxRuns == 2
\* A process makes at most MaxCalls calls on its StorageManager.
MaxCalls == 3

Days == BaseDay .. (BaseDay + MaxDay)

(***************************************************************************)
(* Python values.                                                          *)
(***************************************************************************)
PNone == [none |-> TRUE]
PBool(b) == [bool |-> b]
PNum(n) == [num |-> n]
PStr(s) == [str |-> s]
\* A str whose text is a rendered date or datetime: the text is kept as its
\* digit groups, <<y, m, d>> for "YYYY-MM-DD" and <<y, m, d, t>> for
\* "YYYY-MM-DD HH:MM:SS.ffffff".
PStrIso(k) == [str_iso |-> k]
PDate(o) == [date |-> o]
PDatetime(o, t) == [datetime |-> <<o, t>>]
PList(s) == [list |-> s]
PDict(f) == [dict |-> f]
PObj(c, f) == [class |-> c, fields |-> f]

IsNone(v) == "none" \in DOMAIN v
IsBool(v) == "bool" \in DOMAIN v
IsNum(v) == "num" \in DOMAIN v
IsStr(v) == ("str" \in DOMAIN v) \/ ("str_iso" \in DOMAIN v)
IsDate(v) == "date" \in DOMAIN v
IsDatetime(v) == "datetime" \in DOMAIN v
IsList(v) == "list" \in DOMAIN v
IsDict(v) == "dict" \in DOMAIN v
IsObj(v) == "class" \in DOMAIN v

\* The outcome of a call: a returned value, or an exception that left it.
Returned(v) == [returned |-> v]
Raised(e) == [raised |-> e]
IsRaised(r) == "raised" \in DOMAIN r
IsReturned(r) == "returned" \in DOMAIN r

(***************************************************************************)
(* The calendar: datetime.date arithmetic and strftime('%Y-%m-%d').        *)
(***************************************************************************)
\* The civil date <<year, month, day>> of a day counted from 1970-01-01
\* (the proleptic Gregorian calendar datetime uses).
CivilFromDays(z) ==
    LET zz == z + 719468
        era == zz \div 146097
        doe == zz - era * 146097
        yoe == (doe - (doe \div 1460) + (doe \div 36524) - (doe \div 146096)) \div 365
        doy == doe - (365 * yoe + (yoe \div 4) - (yoe \div 100))
        mp == (5 * doy + 2) \div 153
        d == doy - ((153 * mp + 2) \div 5) + 1
        m == IF mp < 10 THEN mp + 3 ELSE mp - 9
        y == yoe + era * 400 + (IF m <= 2 THEN 1 ELSE 0)
    IN <<y, m, d>>

\* x.strftime('%Y-%m-%d'): the zero-padded text "YYYY-MM-DD", kept as its three
\* digit groups.  A str has no strftime: AttributeError.
strftime(x) ==
    IF IsDate(x) THEN Returned(CivilFromDays(x.date))
    ELSE IF IsDatetime(x) THEN Returned(CivilFromDays(x.datetime[1]))
    ELSE Raised("AttributeError")

\* str(x), as json.dumps(default=str) calls it on what it cannot serialize.
PyStrOf(x) ==
    IF IsDate(x) THEN PStrIso(CivilFromDays(x.date))
    ELSE IF IsDatetime(x) THEN PStrIso(CivilFromDays(x.datetime[1]) \o <<x.datetime[2]>>)
    ELSE x

\* Python's order on str, for two texts of zero-padded digit groups of equal
\* widths: the first differing group decides.
RECURSIVE StrLess(_, _)
StrLess(a, b) ==
    IF a = <<>> \/ b = <<>> THEN a = <<>> /\ b # <<>>
    ELSE IF Head(a) # Head(b) THEN Head(a) < Head(b)
    ELSE StrLess(Tail(a), Tail(b))

\* The file name strftime('%Y-%m-%d') + '.json' of a day; a file name is kept as
\* the digit groups of its date key.
FileNameOfDay(o) == CivilFromDays(o)

FileNames == {FileNameOfDay(o) : o \in Days}

(***************************************************************************)
(* The dataclasses of config.py.                                           *)
(***************************************************************************)
Dividend(announcement_date, due_date, distribution_date, distribution_way, amount) ==
    PObj("Dividend", [announcement_date |-> announcement_date,
                      due_date |-> due_date,
                      distribution_date |-> distribution_date,
                      distribution_way |-> distribution_way,
                      amount |-> amount])

\* Benchmark(): every field defaults to None.
BenchmarkDefaults == [div_yield |-> PNone, p_e |-> PNone, p_b |-> PNone]

Benchmark(div_yield, p_e, p_b) ==
    PObj("Benchmark", [div_yield |-> div_yield, p_e |-> p_e, p_b |-> p_b])

\* Stock(): every field defaults to None.
StockDefaults ==
    [name |-> PNone, sector |-> PNone, industry_group |-> PNone, code |-> PNone,
     price |-> PNone, week52_high |-> PNone, week52_low |-> PNone,
     market_cap |-> PNone, market_cap_percentage |-> PNone,
     issued_shares |-> PNone, net_profit |-> PNone,
     shareholders_equity |-> PNone, earnings_per_share |-> PNone,
     book_value_per_share |-> PNone, quantity_owned |-> PNone,
     cost_price |-> PNone, dividends |-> PNone, benchmark |-> PNone,
     fair_value |-> PNone, scraped_at |-> PNone, success_scraping |-> PNone]

Stock(f) == PObj("Stock", f)

StockData(all_success, date, stocks) ==
    PObj("StockData", [all_success |-> all_success, date |-> date, stocks |-> stocks])

\* The fields of each dataclass, and those among them without a default.
FieldsOf(c) ==
    CASE c = "StockData" -> {"all_success", "date", "stocks"}
      [] c = "Stock" -> DOMAIN StockDefaults
      [] c = "Dividend" -> {"announcement_date", "due_date", "distribution_date",
                            "distribution_way", "amount"}
      [] c = "Benchmark" -> DOMAIN BenchmarkDefaults
      [] c = "FairValue" -> {"average", "uncertainty"}

DefaultsOf(c) ==
    CASE c = "Stock" -> StockDefaults
      [] c = "Benchmark" -> BenchmarkDefaults
      [] OTHER -> <<>>

\* The declared type of a field, as far as from_dict acts on it: a list of a
\* dataclass, a dataclass, or anything else ("plain").
FieldType(c, k) ==
    CASE c = "StockData" /\ k = "stocks" -> [listof |-> "Stock"]
      [] c = "Stock" /\ k = "dividends" -> [listof |-> "Dividend"]
      [] c = "Stock" /\ k = "benchmark" -> [dataclass |-> "Benchmark"]
      [] c = "Stock" /\ k = "fair_value" -> [dataclass |-> "FairValue"]
      [] OTHER -> [plain |-> TRUE]

(***************************************************************************)
(* Serialization: StockData.to_json and what reads it back.                *)
(***************************************************************************)
\* dataclasses.asdict: dataclass instances become dicts, recursively through
\* lists and dicts; every other value is copied.
RECURSIVE asdict(_)
asdict(x) ==
    IF IsObj(x) THEN PDict([k \in DOMAIN x.fields |-> asdict(x.fields[k])])
    ELSE IF IsList(x) THEN PList([i \in 1..Len(x.list) |-> asdict(x.list[i])])
    ELSE IF IsDict(x) THEN PDict([k \in DOMAIN x.dict |-> asdict(x.dict[k])])
    ELSE x

\* json.dumps(..., default=str): dicts, lists, str, numbers, booleans and None
\* are written as they are; anything else (a date, a datetime) is written as
\* the string str() gives.  The JSON text is kept as the tree json.load reads
\* from it.
RECURSIVE json_dumps(_)
json_dumps(x) ==
    IF IsDict(x) THEN PDict([k \in DOMAIN x.dict |-> json_dumps(x.dict[k])])
    ELSE IF IsList(x) THEN PList([i \in 1..Len(x.list) |-> json_dumps(x.list[i])])
    ELSE IF IsNone(x) \/ IsBool(x) \/ IsNum(x) \/ IsStr(x) THEN x
    ELSE PyStrOf(x)

to_json(self) == json_dumps(asdict(self))

\* A file's content is the sequence of pieces written to it: a piece is a JSON
\* text ([json |-> tree]) or text that is no JSON ([garbage |-> ...]).
JsonText(tree) == [json |-> tree]
Garbage == [garbage |-> TRUE]

\* json.load(file): the tree of a file that holds exactly one JSON text;
\* JSONDecodeError for an empty file, other text, or text after the document.
json_load(content) ==
    IF Len(content) = 1 /\ "json" \in DOMAIN content[1]
    THEN Returned(content[1].json)
    ELSE Raised("JSONDecodeError")

\* dacite.from_dict(data_class, data, Config(check_types=False)) raises: the
\* data is no dict, a field without default is missing, or a nested dataclass
\* fails.  No value is checked against its declared type.
RECURSIVE from_dict_raises(_, _)
from_dict_raises(c, data) ==
    \/ ~IsDict(data)
    \/ \E k \in FieldsOf(c) :
          IF k \notin DOMAIN data.dict THEN k \notin DOMAIN DefaultsOf(c)
          ELSE LET t == FieldType(c, k)
                   v == data.dict[k]
               IN \/ /\ "listof" \in DOMAIN t
                     /\ IsList(v)
                     /\ \E i \in 1..Len(v.list) :
                           IsDict(v.list[i]) /\ from_dict_raises(t.listof, v.list[i])
                  \/ /\ "dataclass" \in DOMAIN t
                     /\ IsDict(v)
                     /\ from_dict_raises(t.dataclass, v)

\* The instance from_dict builds when it does not raise: a field present in
\* the data is built by its declared type (a list of dataclasses from a list, a
\* dataclass from a dict) and is otherwise taken as it is; a missing field
\* takes its default; keys that are no field are ignored.
RECURSIVE from_dict(_, _)
from_dict(c, data) ==
    PObj(c, [k \in FieldsOf(c) |->
        IF k \notin DOMAIN data.dict THEN DefaultsOf(c)[k]
        ELSE LET t == FieldType(c, k)
                 v == data.dict[k]
             IN IF "listof" \in DOMAIN t /\ IsList(v)
                THEN PList([i \in 1..Len(v.list) |->
                            IF IsDict(v.list[i]) THEN from_dict(t.listof, v.list[i])
                            ELSE v.list[i]])
                ELSE IF "dataclass" \in DOMAIN t /\ IsDict(v)
                THEN from_dict(t.dataclass, v)
                ELSE v])

(***************************************************************************)
(* StorageManager: startup pruning.                                        *)
(***************************************************************************)
\* The greatest name of a non-empty set of file names, in str order.
MaxName(names) == CHOOSE f \in names : \A g \in names : ~StrLess(f, g)

\* files.sort(reverse=True): the names in descending str order.
RECURSIVE SortReverse(_)
SortReverse(names) ==
    IF names = {} THEN <<>>
    ELSE <<MaxName(names)>> \o SortReverse(names \ {MaxName(names)})

\* __get_existing_files: the snapshot files of the directory, sorted descending,
\* and the first of them (None for an empty directory).  Every file of the
\* modelled directory is named by a date key, ends in '.json' and splits into
\* three parts at '-', so the filter keeps them all.
get_existing_files(dir) ==
    LET files == SortReverse(DOMAIN dir)
    IN <<files, IF Len(files) > 0 THEN PStrIso(files[1]) ELSE PNone>>

\* The window starting a day early: range(1, n + 1).
get_last_n_days_from_yesterday(n, day) == [j \in 1..n |-> PDatetime(day - j, 0)]

\* The window twice as long: range(2 * n).
get_last_2n_days(n, day) == [j \in 1..(2 * n) |-> PDatetime(day - (j - 1), 0)]

\* __get_last_n_days(n): datetime.today() - timedelta(days=i) for i in range(n).
get_last_n_days(n, day) == [j \in 1..n |-> PDatetime(day - (j - 1), 0)]

\* __files_to_keep: the file names of the last n days.
files_to_keep(n, day) ==
    LET last == get_last_n_days(n, day)
    IN [j \in 1..Len(last) |-> strftime(last[j]).returned]

InSeq(x, s) == \E j \in 1..Len(s) : s[j] = x

\* The test with 'or' for 'and'.
ShouldRemoveOr(file, keep, latest) == ~InSeq(file, keep) \/ PStrIso(file) # latest

\* The test without the protection of the latest file.
ShouldRemoveNoLatest(file, keep, latest) == ~InSeq(file, keep)

\* The test of __remove_old_files for one file.
ShouldRemove(file, keep, latest) == ~InSeq(file, keep) /\ PStrIso(file) # latest

\* os.remove(file).
os_remove(dir, file) == [f \in (DOMAIN dir) \ {file} |-> dir[f]]

\* __remove_old_files: visit the existing files in their sorted order and
\* remove each that is neither to keep nor the latest.
RECURSIVE remove_old_files(_, _, _, _)
remove_old_files(dir, existing, keep, latest) ==
    IF existing = <<>> THEN dir
    ELSE remove_old_files(
            IF ShouldRemove(Head(existing), keep, latest)
            THEN os_remove(dir, Head(existing)) ELSE dir,
            Tail(existing), keep, latest)

\* StorageManager.__init__: the directory after startup pruning.
StorageManager_init(dir, n, day) ==
    LET ex == get_existing_files(dir)
    IN remove_old_files(dir, ex[1], files_to_keep(n, day), ex[2])

(***************************************************************************)
(* StorageManager: store and load.                                         *)
(***************************************************************************)
\* __get_stock_date_from_file: the StockData read from a file; None (logged)
\* when open, json.load or from_dict raises.
get_stock_date_from_file(dir, file_name) ==
    IF file_name \notin DOMAIN dir THEN PNone
    ELSE LET data == json_load(dir[file_name])
         IN IF IsRaised(data) THEN PNone
            ELSE IF from_dict_raises("StockData", data.returned) THEN PNone
            ELSE from_dict("StockData", data.returned)

\* Opening the file with 'a' for 'w': the text is added to what the file holds.
write_file_append(dir, file_name, text) ==
    [f \in (DOMAIN dir) \cup {file_name} |->
        IF f = file_name
        THEN (IF f \in DOMAIN dir THEN dir[f] ELSE <<>>) \o <<JsonText(text)>>
        ELSE dir[f]]

\* open(file, 'w') and f.write(text): the file is created or truncated and
\* then holds the text alone.
write_file(dir, file_name, text) ==
    [f \in (DOMAIN dir) \cup {file_name} |->
        IF f = file_name THEN <<JsonText(text)>> ELSE dir[f]]

\* open(file, 'w') followed by a write that fails: the file is left holding a
\* cut-off text.
write_file_cut(dir, file_name) ==
    [f \in (DOMAIN dir) \cup {file_name} |->
        IF f = file_name THEN <<Garbage>> ELSE dir[f]]

\* What the file system does to a write: "ok", "open_fails" (open raises
\* OSError and the directory is as before) or "write_fails" (f.write raises
\* OSError after the file was truncated).
IoOutcomes == {"ok", "open_fails", "write_fails"}

\* store_stock_date(stock_data) under the file system's outcome io: the
\* directory after the call, and what the call returns or raises.  Nothing in
\* the method catches what strftime, open or write raise.
store_stock_date(dir, stock_data, io) ==
    LET file_name == strftime(stock_data.fields.date)
    IN IF IsRaised(file_name) THEN [dir |-> dir, out |-> file_name]
       ELSE IF io = "open_fails" THEN [dir |-> dir, out |-> Raised("OSError")]
       ELSE IF io = "write_fails"
       THEN [dir |-> write_file_cut(dir, file_name.returned), out |-> Raised("OSError")]
       ELSE LET written == write_file(dir, file_name.returned, to_json(stock_data))
            IN [dir |-> written,
                out |-> Returned(get_stock_date_from_file(written, file_name.returned))]

\* get_stock_data_by_date(date) behind @lru_cache(maxsize=1): cache is the
\* sequence of the cached calls, at most one, each [key, value].  A call whose
\* argument equals the cached key returns the cached value and runs nothing; a
\* call that raises caches nothing.
get_stock_data_by_date(dir, cache, date) ==
    IF \E j \in 1..Len(cache) : cache[j].key = date
    THEN [cache |-> cache,
          out |-> Returned((CHOOSE e \in {cache[j] : j \in 1..Len(cache)} : e.key = date).value)]
    ELSE LET file_name == strftime(date)
         IN IF IsRaised(file_name) THEN [cache |-> cache, out |-> file_name]
            ELSE LET value == get_stock_date_from_file(dir, file_name.returned)
                 IN [cache |-> <<[key |-> date, value |-> value]>>,
                     out |-> Returned(value)]

(***************************************************************************)
(* StockScraper: the market-wide indicators table.                         *)
(***************************************************************************)
\* FinancialIndicatorsColumnsIndex, counted from 0 as in the source.
INDUSTRY_GROUP == 0
COMPANY == 0
PRICE == 1
ISSUED_SHARES == 2
NET_INCOME == 3
SHAREHOLDERS_EQUITY == 4
MARKET_CAP == 5
MARKET_CAP_PERCENTAGE == 6
EARNINGS_PER_SHARE == 7
P_E_RATIO == 8
BOOK_VALUE == 9
P_B_RATIO == 10

\* str.lower() on the texts of the model.
Lower(text) ==
    CASE text = "ALPHA" -> "alpha"
      [] text = "Alpha" -> "alpha"
      [] text = "BANKS" -> "banks"
      [] text = "Banks" -> "banks"
      [] text = "BETA" -> "beta"
      [] text = "ENERGY" -> "energy"
      [] text = "Energy" -> "energy"
      [] text = "Unknown" -> "unknown"
      [] OTHER -> text

\* A cell of the table is its stripped text: PStr(""), PStr of other text, or
\* PNum(n) for a text that float() reads as n (thousands separators removed).
\* A cast that gives 0 for a text that is no number.
cast_to_zero(value) == IF IsNum(value) THEN value ELSE PNum(0)

\* __cast_to_float: float(value), None on ValueError.
cast_to_float(value) == IF IsNum(value) THEN value ELSE PNone

\* row_data[table_headers[i]]: the cell of column i; IndexError when there is
\* no header i, KeyError when the row has no such cell.
HasCell(table_headers, row, i) == i + 1 <= Len(table_headers) /\ i + 1 <= Len(row)
CellOf(row, i) == row[i + 1]

\* The Stock a row of the table makes (lines 85-111); its industry group is
\* set later, by the group row that follows.
StockOfRow(row) ==
    Stock([StockDefaults EXCEPT
        !.name = CellOf(row, COMPANY),
        !.price = cast_to_float(CellOf(row, PRICE)),
        !.issued_shares = cast_to_float(CellOf(row, ISSUED_SHARES)),
        !.net_profit = cast_to_float(CellOf(row, NET_INCOME)),
        !.shareholders_equity = cast_to_float(CellOf(row, SHAREHOLDERS_EQUITY)),
        !.market_cap = cast_to_float(CellOf(row, MARKET_CAP)),
        !.market_cap_percentage = cast_to_float(CellOf(row, MARKET_CAP_PERCENTAGE)),
        !.earnings_per_share = cast_to_float(CellOf(row, EARNINGS_PER_SHARE)),
        !.book_value_per_share = cast_to_float(CellOf(row, BOOK_VALUE)),
        !.benchmark = Benchmark(PNone, cast_to_float(CellOf(row, P_E_RATIO)),
                                cast_to_float(CellOf(row, P_B_RATIO)))])

\* A loop that gives the group name to every stock so far.
BackPropagateAll(stocks, i, industry_group_name) ==
    [j \in 1..Len(stocks) |->
        Stock([stocks[j].fields EXCEPT !.industry_group = industry_group_name])]

\* The loop of lines 79-83: from the last stock backwards, give the group name
\* to each stock without a group and stop at the first that has one.
RECURSIVE BackPropagate(_, _, _)
BackPropagate(stocks, i, industry_group_name) ==
    IF i < 1 THEN stocks
    ELSE IF IsNone(stocks[i].fields.industry_group)
    THEN BackPropagate(
            [stocks EXCEPT ![i] = Stock([stocks[i].fields EXCEPT
                                           !.industry_group = industry_group_name])],
            i - 1, industry_group_name)
    ELSE stocks

\* The loop over rows[1:] (lines 72-112): st is [stocks, industry_groups], or
\* Raised once a row raised (a row with more cells than there are headers, a
\* missing header or a missing cell).
RECURSIVE ParseRows(_, _, _)
ParseRows(table_headers, rows, st) ==
    IF IsRaised(st) \/ rows = <<>> THEN st
    ELSE LET row == Head(rows)
         IN IF Len(row) > Len(table_headers) THEN Raised("IndexError")
            ELSE IF ~HasCell(table_headers, row, PRICE) THEN Raised("KeyError")
            ELSE IF CellOf(row, PRICE) = PStr("")
            THEN ParseRows(table_headers, Tail(rows),
                    [stocks |-> BackPropagate(st.stocks, Len(st.stocks),
                                              CellOf(row, INDUSTRY_GROUP)),
                     industry_groups |-> Append(st.industry_groups,
                                                CellOf(row, INDUSTRY_GROUP))])
            ELSE IF ~HasCell(table_headers, row, P_B_RATIO) THEN Raised("KeyError")
            ELSE ParseRows(table_headers, Tail(rows),
                    [stocks |-> Append(st.stocks, StockOfRow(row)),
                     industry_groups |-> st.industry_groups])

\* The body of scrape_financial_indicators for the response the site gives:
\* [status_code, table], table being None (no table of class Table3) or the
\* sequence of the table's rows, each the sequence of its cells' texts, the
\* first row being the header row.
ScrapeFinancialIndicatorsBody(response, day) ==
    IF response.status_code # 200 THEN PNone
    ELSE IF IsNone(response.table) THEN PNone
    ELSE IF response.table.list = <<>> THEN PNone
    ELSE LET table_headers == Head(response.table.list)
             parsed == ParseRows(table_headers, Tail(response.table.list),
                                 [stocks |-> <<>>, industry_groups |-> <<>>])
         IN IF IsRaised(parsed) THEN PNone
            ELSE PObj("FinancialIndicators",
                      [industry_groups |-> PList(parsed.industry_groups),
                       stocks |-> PList(parsed.stocks),
                       headers |-> PList(<<PStr("Industry Group")>> \o table_headers),
                       date |-> PDate(day)])

\* A memo that keeps a table and asks again after a failure.
scrape_financial_indicators_retrying(cache, response, day) ==
    IF Len(cache) > 0 /\ ~IsNone(cache[1])
    THEN [cache |-> cache, out |-> cache[1], requested |-> FALSE]
    ELSE [cache |-> <<ScrapeFinancialIndicatorsBody(response, day)>>,
          out |-> ScrapeFinancialIndicatorsBody(response, day),
          requested |-> TRUE]

\* scrape_financial_indicators() behind @lru_cache(maxsize=1): cache is the
\* sequence of cached results, at most one; the page is requested only when
\* nothing is cached.
scrape_financial_indicators(cache, response, day) ==
    IF Len(cache) > 0 THEN [cache |-> cache, out |-> cache[1], requested |-> FALSE]
    ELSE LET value == ScrapeFinancialIndicatorsBody(response, day)
         IN [cache |-> <<value>>, out |-> value, requested |-> TRUE]

(***************************************************************************)
(* StockScraper: one instrument.                                           *)
(***************************************************************************)
unkown_stock_name == PStr("Unknown")

\* Each extractor takes what its selector finds in the page: Returned(value),
\* or Raised when a node is missing or a cast fails; it returns the value or
\* its failure sentinel.
extract_stock_name(data) ==
    IF IsRaised(data.price_name) THEN unkown_stock_name ELSE data.price_name.returned

\* Sector and industry group are read by the same expression, the second <li>
\* of the market_capital block.
extract_stock_sector(data) ==
    IF IsRaised(data.market_capital_li) THEN PNone ELSE data.market_capital_li.returned

extract_stock_industry_group(data) ==
    IF IsRaised(data.market_capital_li) THEN PNone ELSE data.market_capital_li.returned

\* A price extractor that gives up when the name was not found.
extract_stock_price_after_name(data) ==
    IF IsRaised(data.price_name) \/ IsRaised(data.price) THEN PNum(-1)
    ELSE data.price.returned

extract_stock_price(data) ==
    IF IsRaised(data.price) THEN PNum(-1) ELSE data.price.returned

\* Returns <<high, low>>.
extract_52_week_prices(data) ==
    IF IsRaised(data.week_52) THEN <<PNum(-1), PNum(-1)>> ELSE data.week_52.returned

\* __extract_dividends_row: the Dividend of a row, None for a row that does not
\* parse.
extract_dividends_row(row) ==
    IF IsRaised(row) THEN PNone
    ELSE Dividend(PDatetime(row.returned.announcement_date, 0),
                  PDatetime(row.returned.due_date, 0),
                  PDatetime(row.returned.distribution_date, 0),
                  row.returned.distribution_way,
                  row.returned.amount)

RECURSIVE FilterNotNone(_)
FilterNotNone(seq) ==
    IF seq = <<>> THEN <<>>
    ELSE IF IsNone(Head(seq)) THEN FilterNotNone(Tail(seq))
    ELSE <<Head(seq)>> \o FilterNotNone(Tail(seq))

\* __extract_stock_dividends: data.dividends is Raised (no link, no driver, no
\* table: caught), [timeout |-> TRUE] (__wait_for_dividend_table returned
\* False) or [rows |-> the rows of the table].
extract_stock_dividends(data) ==
    IF IsRaised(data.dividends) THEN PNone
    ELSE IF "timeout" \in DOMAIN data.dividends THEN PNone
    ELSE PList(FilterNotNone([j \in 1..Len(data.dividends.rows) |->
                                extract_dividends_row(data.dividends.rows[j])]))

\* __scrape_stock_benchmark: response is [status_code, div_yield], div_yield
\* Returned(value) or Raised (a missing key, a failed cast).
scrape_stock_benchmark(response) ==
    IF response.status_code # 200 THEN Benchmark(PNone, PNone, PNone)
    ELSE IF IsRaised(response.div_yield) THEN Benchmark(PNone, PNone, PNone)
    ELSE Benchmark(response.div_yield.returned, PNone, PNone)

\* x.lower(): AttributeError on None.
LowerRaises(x) == ~IsStr(x)

\* The generator of lines 328-330 at row s: does evaluating its condition raise.
\* 'and' evaluates the industry groups only when the names are equal.
MatchRaises(s, stock) ==
    \/ LowerRaises(s.fields.name) \/ LowerRaises(stock.name)
    \/ /\ Lower(s.fields.name.str) = Lower(stock.name.str)
       /\ (LowerRaises(s.fields.industry_group) \/ LowerRaises(stock.industry_group))

Matches(s, stock) ==
    /\ Lower(s.fields.name.str) = Lower(stock.name.str)
    /\ Lower(s.fields.industry_group.str) = Lower(stock.industry_group.str)

\* next((s for s in financial_indicators.stocks if ...), None): the first
\* matching row, None when there is none, Raised when a condition evaluated
\* before a match raises.
RECURSIVE FirstMatch(_, _)
FirstMatch(rows, stock) ==
    IF rows = <<>> THEN Returned(PNone)
    ELSE IF MatchRaises(Head(rows), stock) THEN Raised("AttributeError")
    ELSE IF Matches(Head(rows), stock) THEN Returned(Head(rows))
    ELSE FirstMatch(Tail(rows), stock)

\* __update_stocks_info_from_financial_indicators(stock), given what
\* scrape_financial_indicators() returned: the stock's fields afterwards, or
\* Raised.
update_stocks_info_from_financial_indicators(stock, financial_indicators) ==
    IF IsNone(financial_indicators) THEN Returned(stock)
    ELSE LET found == FirstMatch(financial_indicators.fields.stocks.list, stock)
         IN IF IsRaised(found) THEN found
            ELSE IF IsNone(found.returned) THEN Returned(stock)
            ELSE LET s == found.returned.fields
                 IN Returned([stock EXCEPT
                        !.issued_shares = s.issued_shares,
                        !.net_profit = s.net_profit,
                        !.shareholders_equity = s.shareholders_equity,
                        !.market_cap = s.market_cap,
                        !.market_cap_percentage = s.market_cap_percentage,
                        !.earnings_per_share = s.earnings_per_share,
                        !.book_value_per_share = s.book_value_per_share,
                        !.benchmark = Benchmark(stock.benchmark.fields.div_yield,
                                                s.benchmark.fields.p_e,
                                                s.benchmark.fields.p_b)])

\* x < 0 of line 171 for a number.
Negative(x) == x.num < 0

\* A verdict that also asks for the benchmark's dividend yield.
success_scraping_with_benchmark(stock) ==
    /\ stock.name # unkown_stock_name
    /\ ~IsNone(stock.sector)
    /\ ~IsNone(stock.industry_group)
    /\ ~Negative(stock.price)
    /\ ~Negative(stock.week52_high)
    /\ ~Negative(stock.week52_low)
    /\ ~IsNone(stock.dividends)
    /\ ~IsNone(stock.benchmark.fields.div_yield)

\* The verdict of lines 171-175.
success_scraping(stock) ==
    ~ \/ stock.name = unkown_stock_name
      \/ IsNone(stock.sector)
      \/ IsNone(stock.industry_group)
      \/ Negative(stock.price)
      \/ Negative(stock.week52_high)
      \/ Negative(stock.week52_low)
      \/ IsNone(stock.dividends)

\* The fields of lines 143-162, extracted from the page one after the other.
ExtractedFields(stock_code, now, data, benchmark_response) ==
    [StockDefaults EXCEPT
        !.code = PNum(stock_code),
        !.scraped_at = now,
        !.name = extract_stock_name(data),
        !.sector = extract_stock_sector(data),
        !.industry_group = extract_stock_industry_group(data),
        !.price = extract_stock_price(data),
        !.week52_high = extract_52_week_prices(data)[1],
        !.week52_low = extract_52_week_prices(data)[2],
        !.dividends = extract_stock_dividends(data),
        !.benchmark = scrape_stock_benchmark(benchmark_response)]

\* __scrape_stock_info from line 140 on, the page having answered 200: the
\* extractions, the benchmark, the enrichment and the verdict.
scrape_stock_info_body(stock_code, now, day, site, cache) ==
    LET extracted == ExtractedFields(stock_code, now, site.page.data, site.benchmark)
        fi == scrape_financial_indicators(cache, site.indicators, day)
        updated == update_stocks_info_from_financial_indicators(extracted, fi.out)
    IN [cache |-> fi.cache,
        out |-> IF IsRaised(updated) THEN updated
                ELSE Returned(Stock([updated.returned EXCEPT
                       !.success_scraping =
                           PBool(success_scraping(updated.returned))])),
        requests |-> <<[url |-> "stock", code |-> stock_code],
                       [url |-> "benchmark", code |-> stock_code]>>
                     \o (IF fi.requested THEN <<[url |-> "indicators", code |-> 0]>>
                         ELSE <<>>)]

\* __scrape_stock_info without the return of line 138.
scrape_stock_info_no_short_circuit(stock_code, now, day, site, cache) ==
    scrape_stock_info_body(stock_code, now, day, site, cache)

\* __scrape_stock_info(url, stock_code): site is what the site answers, [page,
\* benchmark, indicators]; cache is scrape_financial_indicators' cache.  Gives
\* the cache afterwards, the Stock returned or the exception raised, and the
\* pages requested on the way.
scrape_stock_info(stock_code, now, day, site, cache) ==
    IF site.page.status_code # 200
    THEN [cache |-> cache,
          out |-> Returned(Stock([StockDefaults EXCEPT
                    !.code = PNum(stock_code),
                    !.scraped_at = now,
                    !.success_scraping = PBool(FALSE)])),
          requests |-> <<[url |-> "stock", code |-> stock_code]>>]
    ELSE scrape_stock_info_body(stock_code, now, day, site, cache)

\* scrape_one(stock_code).
scrape_one(stock_code, now, day, site, cache) ==
    scrape_stock_info(stock_code, now, day, site, cache)

\* scrape_list(stocks): __scrape_stock_info for each code in turn, site_of
\* giving what the site answers to each; the first exception ends the list
\* comprehension.
RECURSIVE scrape_list(_, _, _, _, _)
scrape_list(stock_codes, now, day, site_of, cache) ==
    IF stock_codes = <<>>
    THEN [cache |-> cache, out |-> Returned(<<>>), requests |-> <<>>]
    ELSE LET first == scrape_stock_info(Head(stock_codes), now, day, Head(site_of), cache)
         IN IF IsRaised(first.out) THEN first
            ELSE LET rest == scrape_list(Tail(stock_codes), now, day, Tail(site_of),
                                         first.cache)
                 IN [cache |-> rest.cache,
                     out |-> IF IsRaised(rest.out) THEN rest.out
                             ELSE Returned(<<first.out.returned>> \o rest.out.returned),
                     requests |-> first.requests \o rest.requests]

(***************************************************************************)
(* The site: what the pages answer.  These are the inputs of the model.    *)
(***************************************************************************)
\* An instrument page on which every selector finds its node.
GoodData ==
    [price_name |-> Returned(PStr("Alpha")),
     market_capital_li |-> Returned(PStr("Banks")),
     price |-> Returned(PNum(10)),
     week_52 |-> Returned(<<PNum(12), PNum(8)>>),
     dividends |-> [rows |-> <<Returned([announcement_date |-> BaseDay - 2,
                                         due_date |-> BaseDay - 1,
                                         distribution_date |-> BaseDay,
                                         distribution_way |-> PStr("Cash"),
                                         amount |-> PNum(1)]),
                               Raised("ValueError")>>]]

GoodPage == [status_code |-> 200, data |-> GoodData]
FailedPage == [status_code |-> 500, data |-> GoodData]
NoNamePage ==
    [status_code |-> 200, data |-> [GoodData EXCEPT !.price_name = Raised("AttributeError")]]
NoGroupPage ==
    [status_code |-> 200,
     data |-> [GoodData EXCEPT !.market_capital_li = Raised("AttributeError")]]

GoodBenchmark == [status_code |-> 200, div_yield |-> Returned(PNum(3))]

\* The indicators table: the header row, instrument rows, and the group row
\* that follows them.
TableHeaders ==
    <<PStr("Company"), PStr("Price"), PStr("Issued Shares"), PStr("Net Income"),
      PStr("Shareholders Equity"), PStr("Market Cap"), PStr("Market Cap %"),
      PStr("EPS"), PStr("P/E"), PStr("Book Value"), PStr("P/B")>>

InstrumentRow(company) ==
    <<PStr(company), PNum(10), PNum(100), PNum(20), PNum(50), PNum(1000), PNum(2),
      PNum(4), PNum(5), PNum(6), PNum(7)>>

\* An instrument row whose P/E cell holds a dash.
DashRow(company) == [InstrumentRow(company) EXCEPT ![P_E_RATIO + 1] = PStr("-")]

GroupRow(industry_group_name) ==
    <<PStr(industry_group_name), PStr(""), PStr(""), PStr(""), PStr(""), PStr(""),
      PStr(""), PStr(""), PStr(""), PStr(""), PStr("")>>

GoodIndicators ==
    [status_code |-> 200,
     table |-> PList(<<TableHeaders, InstrumentRow("ALPHA"), GroupRow("BANKS")>>)]
FailedIndicators == [status_code |-> 500, table |-> PNone]

\* What the site answers to one scrape.
Sites ==
    [page : {GoodPage, FailedPage, NoNamePage, NoGroupPage},
     benchmark : {GoodBenchmark},
     indicators : {GoodIndicators, FailedIndicators}]

\* The tracked codes of the model.
Codes == {1111, 2222}

\* The Stocks scrape_one returns for the sites of the model.
ScrapedStocks(stock_code, now, day) ==
    {scrape_one(stock_code, now, day, site, <<>>).out.returned :
        site \in {x \in Sites : IsReturned(scrape_one(stock_code, now, day, x, <<>>).out)}}

\* The selectors of an instrument page, one per extractor; sector and industry
\* group share market_capital_li.
Selectors == {"price_name", "market_capital_li", "price", "week_52", "dividends"}

\* The page on which exactly the selectors of failing find nothing.
DataFailing(failing) ==
    [k \in Selectors |-> IF k \in failing THEN Raised("AttributeError") ELSE GoodData[k]]

\* A page whose dividend table never shows its rows.
DividendTimeoutPage ==
    [status_code |-> 200, data |-> [GoodData EXCEPT !.dividends = [timeout |-> TRUE]]]

ScrapePages ==
    {[status_code |-> 200, data |-> DataFailing(failing)] : failing \in SUBSET Selectors}
        \cup {FailedPage, DividendTimeoutPage}

\* The benchmark answers: a refusal, and a body without the key.
FailedBenchmark == [status_code |-> 403, div_yield |-> Returned(PNum(3))]
BadBenchmark == [status_code |-> 200, div_yield |-> Raised("KeyError")]

\* The indicators page without the table, with a row too short to parse, with
\* no row of the instrument's name, with the instrument's row under another
\* group, and with the instrument's row after the last group row.
NoTableIndicators == [status_code |-> 200, table |-> PNone]
MalformedIndicators ==
    [status_code |-> 200,
     table |-> PList(<<TableHeaders, InstrumentRow("ALPHA"), <<PStr("BANKS")>> >>)]
NoMatchIndicators ==
    [status_code |-> 200,
     table |-> PList(<<TableHeaders, InstrumentRow("BETA"), GroupRow("BANKS")>>)]
OtherGroupIndicators ==
    [status_code |-> 200,
     table |-> PList(<<TableHeaders, InstrumentRow("ALPHA"), GroupRow("ENERGY")>>)]
UngroupedIndicators ==
    [status_code |-> 200,
     table |-> PList(<<TableHeaders, InstrumentRow("BETA"), GroupRow("BANKS"),
                       InstrumentRow("ALPHA")>>)]

IndicatorsResponses ==
    {GoodIndicators, FailedIndicators, NoTableIndicators, MalformedIndicators,
     NoMatchIndicators, OtherGroupIndicators, UngroupedIndicators}

\* What the site may answer to one call of scrape_one.
ScrapeSites ==
    [page : ScrapePages,
     benchmark : {GoodBenchmark, FailedBenchmark, BadBenchmark},
     indicators : IndicatorsResponses]

\* A well-formed snapshot file of a day, as an earlier run left it.
EmptySnapshotFile(o) == <<JsonText(to_json(StockData(PBool(TRUE), PDate(o), PList(<<>>))))>>

(***************************************************************************)
(* The state.                                                              *)
(***************************************************************************)
VARIABLES
    today,                  \* the calendar day of datetime.today(), in days since 1970-01-01
    run,                    \* the invocations of the program so far; the clock's time of day
    keep_last_files_count,  \* config.storage.keep_last_files_count
    stocks_to_scrape,       \* config.tadawul.stocks
    portfolio_data,         \* portfolio_manager.portfolio_data
    folder,                 \* the cache directory: file name -> content
    folder_at_start,        \* history: the directory as the process found it
    pc,                     \* where the process is
    load_cache,             \* the lru_cache of get_stock_data_by_date
    fi_cache,               \* the lru_cache of scrape_financial_indicators
    calls,                  \* history: the calls made on the StorageManager by this process
    today_stock_data,       \* get_today_stock_data's local
    stocks,                 \* get_today_stock_data's local
    reused_from,            \* for each of stocks, the index of the cached Stock it is (0: a new object)
    stock_data,             \* __main__'s stock_data
    requests,               \* history: the pages requested by this process
    monotonic,              \* time.monotonic(), in half seconds
    end_time                \* __wait_for_dividend_table's end_time

configVars == <<keep_last_files_count, stocks_to_scrape, portfolio_data>>
localVars == <<today_stock_data, stocks, reused_from, stock_data>>
pollVars == <<monotonic, end_time>>
vars == <<today, run, keep_last_files_count, stocks_to_scrape, portfolio_data, folder,
          folder_at_start, pc, load_cache, fi_cache, calls, today_stock_data, stocks,
          reused_from, stock_data, requests, monotonic, end_time>>

(***************************************************************************)
(* The process: each invocation of the program constructs a StorageManager *)
(* over the directory the earlier ones left.                               *)
(***************************************************************************)
\* A process that has not started: empty caches, no locals.
FreshProcess ==
    /\ pc = "start"
    /\ load_cache = <<>>
    /\ fi_cache = <<>>
    /\ calls = <<>>
    /\ today_stock_data = PNone
    /\ stocks = <<>>
    /\ reused_from = <<>>
    /\ stock_data = PNone
    /\ requests = <<>>
    /\ monotonic = 0
    /\ end_time = 0

\* storage_manager = StorageManager()
Construct ==
    /\ pc = "start"
    /\ folder_at_start' = folder
    /\ folder' = StorageManager_init(folder, keep_last_files_count, today)
    /\ pc' = "ready"
    /\ UNCHANGED <<pollVars, today, run, configVars, load_cache, fi_cache, calls, localVars, requests>>

\* The process has ended (it finished, or an exception left it); the next
\* invocation starts the same day or the next, with empty caches.
NextInvocation ==
    /\ pc \in {"ready", "done", "crashed"}
    /\ run < MaxRuns
    /\ run' = run + 1
    /\ \E o \in {today, today + 1} : o \in Days /\ today' = o
    /\ pc' = "start"
    /\ load_cache' = <<>>
    /\ fi_cache' = <<>>
    /\ calls' = <<>>
    /\ today_stock_data' = PNone
    /\ stocks' = <<>>
    /\ reused_from' = <<>>
    /\ stock_data' = PNone
    /\ requests' = <<>>
    /\ UNCHANGED <<pollVars, configVars, folder, folder_at_start>>

(***************************************************************************)
(* Startup pruning alone, over every directory of dated files.             *)
(***************************************************************************)
InitPrune ==
    /\ today \in Days
    /\ run = 0
    /\ keep_last_files_count \in 0..MaxKeep
    /\ stocks_to_scrape = <<>>
    /\ portfolio_data = PNone
    /\ \E present \in SUBSET Days :
          folder = [f \in {FileNameOfDay(o) : o \in present} |->
                      EmptySnapshotFile(CHOOSE o \in present : FileNameOfDay(o) = f)]
    /\ folder_at_start = folder
    /\ FreshProcess

NextPrune == Construct \/ NextInvocation

SpecPrune == InitPrune /\ [][NextPrune]_vars

(***************************************************************************)
(* The history of files: runs on days that do not go back, each pruning at *)
(* startup and then storing the snapshot of its day.                       *)
(***************************************************************************)
\* The directory holds files of days up to today, as earlier runs left them
\* under any retention count.
InitHistory ==
    /\ today \in Days
    /\ run = 0
    /\ keep_last_files_count \in 1..MaxKeep
    /\ stocks_to_scrape = <<>>
    /\ portfolio_data = PNone
    /\ \E present \in SUBSET {o \in Days : o <= today} :
          folder = [f \in {FileNameOfDay(o) : o \in present} |->
                      EmptySnapshotFile(CHOOSE o \in present : FileNameOfDay(o) = f)]
    /\ folder_at_start = folder
    /\ FreshProcess

\* storage_manager.store_stock_date(stock_data), the store of the run.
StoreToday ==
    /\ pc = "ready"
    /\ \E io \in IoOutcomes :
          LET stock_data_in == StockData(PBool(TRUE), PDate(today), PList(<<>>))
              r == store_stock_date(folder, stock_data_in, io)
          IN /\ folder' = r.dir
             /\ calls' = Append(calls, [op |-> "store", arg |-> stock_data_in, out |-> r.out])
             /\ pc' = IF IsRaised(r.out) THEN "crashed" ELSE "done"
    /\ UNCHANGED <<pollVars, today, run, configVars, folder_at_start, load_cache, fi_cache,
                   localVars, requests>>

NextHistory == Construct \/ StoreToday \/ NextInvocation

SpecHistory == InitHistory /\ [][NextHistory]_vars

(***************************************************************************)
(* The StorageManager under a caller that stores and loads in any order.   *)
(***************************************************************************)
\* bool(x) for the values a flag takes: True, False, None.
Truthy(x) == IsBool(x) /\ x.bool

\* any(...) in the place of all(...).
any_success_of(list) == \E j \in 1..Len(list) : Truthy(list[j].fields.success_scraping)

\* all(map(lambda stock: stock.success_scraping, stocks)) of main.py line 45.
all_success_of(list) == \A j \in 1..Len(list) : Truthy(list[j].fields.success_scraping)

\* The snapshots a caller stores on a day: the one get_today_stock_data
\* assembles from no Stock, and the one from a Stock scraped with every page
\* answering well.
StoreInputs(day) ==
    {StockData(PBool(all_success_of(list)), PDate(day), PList(list)) :
        list \in {<<>>,
                  <<scrape_one(1111, PDatetime(day, 0), day,
                               [page |-> GoodPage, benchmark |-> GoodBenchmark,
                                indicators |-> GoodIndicators], <<>>).out.returned>>}}

\* What a file of the directory may hold when the program starts: nothing, text
\* that is no JSON, JSON that is no object, an object without "stocks", an
\* object whose "stocks" is a number, or a snapshot.
InitContents(o) ==
    {<<>>,
     <<Garbage>>,
     <<JsonText(PList(<<>>))>>,
     <<JsonText(PDict([all_success |-> PBool(TRUE), date |-> PyStrOf(PDate(o))]))>>,
     <<JsonText(PDict([all_success |-> PBool(TRUE), date |-> PyStrOf(PDate(o)),
                       stocks |-> PNum(7)]))>>,
     EmptySnapshotFile(o)}

\* One process, started on the last day but one of the model; the directory
\* holds no file or one file, of that day or the day before.
InitStore ==
    /\ today = BaseDay + MaxDay - 1
    /\ run = 0
    /\ keep_last_files_count = MaxKeep
    /\ stocks_to_scrape = <<>>
    /\ portfolio_data = PNone
    /\ \/ folder = <<>>
       \/ \E o \in {today - 1, today} : \E content \in InitContents(o) :
             folder = [f \in {FileNameOfDay(o)} |-> content]
    /\ folder_at_start = folder
    /\ FreshProcess

\* Midnight passes while the process runs.
Tick ==
    /\ pc = "ready"
    /\ today < BaseDay + MaxDay
    /\ today' = today + 1
    /\ UNCHANGED <<pollVars, run, configVars, folder, folder_at_start, pc, load_cache, fi_cache,
                   calls, localVars, requests>>

\* storage_manager.store_stock_date(stock_data)
StoreCall ==
    /\ pc = "ready"
    /\ Len(calls) < MaxCalls
    /\ \E stock_data_in \in StoreInputs(today) : \E io \in IoOutcomes :
          LET r == store_stock_date(folder, stock_data_in, io)
          IN /\ folder' = r.dir
             /\ calls' = Append(calls, [op |-> "store", arg |-> stock_data_in, out |-> r.out])
             /\ pc' = IF IsRaised(r.out) THEN "crashed" ELSE "ready"
    /\ UNCHANGED <<pollVars, today, run, configVars, folder_at_start, load_cache, fi_cache,
                   localVars, requests>>

\* The call get_stock_data_by_date(date) and its trace in the history.
LoadWith(date) ==
    LET r == get_stock_data_by_date(folder, load_cache, date)
    IN /\ load_cache' = r.cache
       /\ calls' = Append(calls, [op |-> "load", arg |-> date, out |-> r.out])
       /\ pc' = IF IsRaised(r.out) THEN "crashed" ELSE "ready"

\* storage_manager.get_stock_data_by_date(date), date a datetime or a date
LoadCall ==
    /\ pc = "ready"
    /\ Len(calls) < MaxCalls
    /\ \E date \in {PDatetime(today, 0), PDate(today), PDatetime(today - 1, 0)} :
          LoadWith(date)
    /\ UNCHANGED <<pollVars, today, run, configVars, folder, folder_at_start, fi_cache,
                   localVars, requests>>

\* storage_manager.get_stock_data_by_date(r.date), r being what the store just
\* before returned
LoadReturnedDate ==
    /\ pc = "ready"
    /\ 0 < Len(calls) /\ Len(calls) < MaxCalls
    /\ calls[Len(calls)].op = "store"
    /\ IsObj(calls[Len(calls)].out.returned)
    /\ LoadWith(calls[Len(calls)].out.returned.fields.date)
    /\ UNCHANGED <<pollVars, today, run, configVars, folder, folder_at_start, fi_cache,
                   localVars, requests>>

NextStore == Construct \/ StoreCall \/ LoadCall \/ LoadReturnedDate \/ Tick

SpecStore == InitStore /\ [][NextStore]_vars

(***************************************************************************)
(* main.py: one invocation after another.                                  *)
(***************************************************************************)
\* The lists config.tadawul.stocks takes in the model.
TrackedLists == {<<>>, <<1111>>, <<1111, 2222>>, <<2222, 1111>>, <<3333, 1111>>}

\* What the site answers to a scrape during a run.
RunSites ==
    {[page |-> GoodPage, benchmark |-> GoodBenchmark, indicators |-> GoodIndicators],
     [page |-> FailedPage, benchmark |-> GoodBenchmark, indicators |-> GoodIndicators],
     [page |-> NoGroupPage, benchmark |-> GoodBenchmark, indicators |-> GoodIndicators]}

\* The portfolio file of the model: it names code 1111 alone.
PortfolioOf1111 == [c \in {1111} |-> <<5, 9>>]

InitRun ==
    /\ today = BaseDay + MaxDay - 1
    /\ run = 0
    /\ keep_last_files_count = 1
    /\ stocks_to_scrape \in TrackedLists
    /\ portfolio_data \in {PNone, PDict(PortfolioOf1111)}
    /\ folder = <<>>
    /\ folder_at_start = folder
    /\ FreshProcess

\* config.yaml is edited between two invocations.
EditConfig ==
    /\ pc = "start"
    /\ run > 0
    /\ \E list \in TrackedLists : list # stocks_to_scrape /\ stocks_to_scrape' = list
    /\ UNCHANGED <<pollVars, today, run, keep_last_files_count, portfolio_data, folder,
                   folder_at_start, pc, load_cache, fi_cache, calls, localVars, requests>>

\* The time datetime.now() gives in this invocation.
Now == PDatetime(today, run)

\* get_today_stock_data, lines 28-34: load today's snapshot and take the
\* branch it decides.
GetTodayLoad ==
    /\ pc = "ready"
    /\ LET r == get_stock_data_by_date(folder, load_cache, Now)
       IN /\ load_cache' = r.cache
          /\ calls' = Append(calls, [op |-> "load", arg |-> Now, out |-> r.out])
          /\ today_stock_data' = r.out.returned
          /\ pc' = IF IsNone(r.out.returned) THEN "scrape_list"
                   ELSE IF Truthy(r.out.returned.fields.all_success) THEN "filter"
                   ELSE "repair"
    /\ stocks' = <<>>
    /\ reused_from' = <<>>
    /\ UNCHANGED <<pollVars, today, run, configVars, folder, folder_at_start, fi_cache,
                   stock_data, requests>>

\* One scrape of the code the loop is at: the Stock joins stocks, or the
\* exception ends the process.
ScrapeNext ==
    \E site \in RunSites :
        LET r == scrape_one(stocks_to_scrape[Len(stocks) + 1], Now, today, site, fi_cache)
        IN /\ fi_cache' = r.cache
           /\ requests' = requests \o r.requests
           /\ IF IsRaised(r.out)
              THEN /\ pc' = "crashed"
                   /\ UNCHANGED <<stocks, reused_from>>
              ELSE /\ stocks' = Append(stocks, r.out.returned)
                   /\ reused_from' = Append(reused_from, 0)
                   /\ UNCHANGED pc

\* scrape_list(stocks_to_scrape), line 32 and scraper.py line 44: one element
\* of the list comprehension.
ScrapeListStep ==
    /\ pc = "scrape_list"
    /\ Len(stocks) < Len(stocks_to_scrape)
    /\ ScrapeNext
    /\ UNCHANGED <<pollVars, today, run, configVars, folder, folder_at_start, load_cache, calls,
                   today_stock_data, stock_data>>

\* Every index of the cached stocks, tracked or not.
AllIndexes(cached, tracked, j) == [k \in 1..Len(cached) |-> k]

\* The indexes, in order, of the cached stocks whose code is tracked.
RECURSIVE TrackedIndexes(_, _, _)
TrackedIndexes(cached, tracked, j) ==
    IF j > Len(cached) THEN <<>>
    ELSE (IF \E k \in 1..Len(tracked) : cached[j].fields.code = PNum(tracked[k])
          THEN <<j>> ELSE <<>>) \o TrackedIndexes(cached, tracked, j + 1)

\* Line 34: the cached stocks whose code is tracked, in the cache's order.
FilterStep ==
    /\ pc = "filter"
    /\ LET cached == today_stock_data.fields.stocks.list
           kept == TrackedIndexes(cached, stocks_to_scrape, 1)
       IN /\ stocks' = [j \in 1..Len(kept) |-> cached[kept[j]]]
          /\ reused_from' = kept
    /\ pc' = "filtered"
    /\ UNCHANGED <<pollVars, today, run, configVars, folder, folder_at_start, load_cache, fi_cache,
                   calls, today_stock_data, stock_data, requests>>

\* A search of the cached stocks that finds none.
FirstCachedIndexNotFound(cached, stock_to_scrape) == 0

\* next((s for s in today_stock_data.stocks if s.code == stock_to_scrape),
\* None): the index of the first cached stock of the code, 0 for None.
FirstCachedIndex(cached, stock_to_scrape) ==
    IF \E j \in 1..Len(cached) : cached[j].fields.code = PNum(stock_to_scrape)
    THEN CHOOSE j \in 1..Len(cached) :
            /\ cached[j].fields.code = PNum(stock_to_scrape)
            /\ \A k \in 1..(j - 1) : cached[k].fields.code # PNum(stock_to_scrape)
    ELSE 0

\* Lines 37-43, one tracked code: reuse the cached Stock that succeeded, or
\* scrape the code.
RepairStep ==
    /\ pc = "repair"
    /\ Len(stocks) < Len(stocks_to_scrape)
    /\ LET cached == today_stock_data.fields.stocks.list
           j == FirstCachedIndex(cached, stocks_to_scrape[Len(stocks) + 1])
       IN IF j # 0 /\ Truthy(cached[j].fields.success_scraping)
          THEN /\ stocks' = Append(stocks, cached[j])
               /\ reused_from' = Append(reused_from, j)
               /\ UNCHANGED <<pc, fi_cache, requests>>
          ELSE ScrapeNext
    /\ UNCHANGED <<pollVars, today, run, configVars, folder, folder_at_start, load_cache, calls,
                   today_stock_data, stock_data>>

\* Lines 45-47: the snapshot get_today_stock_data returns.
GetTodayReturn ==
    /\ \/ pc \in {"scrape_list", "repair"} /\ Len(stocks) = Len(stocks_to_scrape)
       \/ pc = "filtered"
    /\ stock_data' = StockData(PBool(all_success_of(stocks)), PDate(today), PList(stocks))
    /\ pc' = "merge"
    /\ UNCHANGED <<pollVars, today, run, configVars, folder, folder_at_start, load_cache, fi_cache,
                   calls, today_stock_data, stocks, reused_from, requests>>

\* Lines 55-59 for one Stock: the owned quantity and cost of its code, when the
\* portfolio names the code.
MergeStock(stock, portfolio) ==
    IF stock.fields.code.num \in DOMAIN portfolio
    THEN Stock([stock.fields EXCEPT
                  !.quantity_owned = PNum(portfolio[stock.fields.code.num][1]),
                  !.cost_price = PNum(portfolio[stock.fields.code.num][2])])
    ELSE stock

\* update_stock_data_from_portfolio(stock_data): the stocks are written in
\* place, so a Stock that is the cached snapshot's own object changes there
\* too, in the snapshot the load cache holds.
Merge ==
    /\ pc = "merge"
    /\ IF IsNone(portfolio_data)
       THEN UNCHANGED <<stock_data, load_cache, today_stock_data, stocks>>
       ELSE LET merged == [j \in 1..Len(stocks) |-> MergeStock(stocks[j], portfolio_data.dict)]
                cached == IF IsNone(today_stock_data) THEN <<>>
                          ELSE today_stock_data.fields.stocks.list
                written == [k \in 1..Len(cached) |->
                              IF \E j \in 1..Len(stocks) : reused_from[j] = k
                              THEN MergeStock(cached[k], portfolio_data.dict)
                              ELSE cached[k]]
                loaded == IF IsNone(today_stock_data) THEN today_stock_data
                          ELSE PObj("StockData", [today_stock_data.fields EXCEPT
                                                    !.stocks = PList(written)])
            IN /\ stocks' = merged
               /\ stock_data' = PObj("StockData", [stock_data.fields EXCEPT
                                                     !.stocks = PList(merged)])
               /\ today_stock_data' = loaded
               /\ load_cache' = [j \in 1..Len(load_cache) |->
                                   [load_cache[j] EXCEPT !.value = loaded]]
    /\ calls' = Append(calls, [op |-> "merge", arg |-> stock_data,
                                out |-> Returned(stock_data')])
    /\ pc' = "store"
    /\ UNCHANGED <<pollVars, today, run, configVars, folder, folder_at_start, fi_cache,
                   reused_from, requests>>

\* stock_data = storage_manager.store_stock_date(stock_data)
StoreStep ==
    /\ pc = "store"
    /\ \E io \in IoOutcomes :
          LET r == store_stock_date(folder, stock_data, io)
          IN /\ folder' = r.dir
             /\ calls' = Append(calls, [op |-> "store", arg |-> stock_data, out |-> r.out])
             /\ IF IsRaised(r.out)
                THEN pc' = "crashed" /\ UNCHANGED stock_data
                ELSE pc' = "render" /\ stock_data' = r.out.returned
    /\ UNCHANGED <<pollVars, today, run, configVars, folder_at_start, load_cache, fi_cache,
                   today_stock_data, stocks, reused_from, requests>>

\* The two report calls of lines 71-72; the second asks the scraper for the
\* indicators table.
Render ==
    /\ pc = "render"
    /\ \E response \in {GoodIndicators, FailedIndicators} :
          LET fi == scrape_financial_indicators(fi_cache, response, today)
          IN /\ fi_cache' = fi.cache
             /\ requests' = requests \o (IF fi.requested
                                         THEN <<[url |-> "indicators", code |-> 0]>>
                                         ELSE <<>>)
    /\ calls' = Append(calls, [op |-> "render", arg |-> stock_data,
                                out |-> Returned(PNone)])
    /\ pc' = "done"
    /\ UNCHANGED <<pollVars, today, run, configVars, folder, folder_at_start, load_cache,
                   localVars>>

NextRun ==
    \/ EditConfig \/ Construct \/ GetTodayLoad \/ ScrapeListStep \/ FilterStep
    \/ RepairStep \/ GetTodayReturn \/ Merge \/ StoreStep \/ Render \/ NextInvocation

SpecRun == InitRun /\ [][NextRun]_vars

\* The script run over a directory that holds today's snapshot as a run left it
\* while the portfolio was not loaded, the portfolio being loaded now.
InitReuse ==
    /\ today = BaseDay + MaxDay - 1
    /\ run = 0
    /\ keep_last_files_count = 1
    /\ stocks_to_scrape \in TrackedLists
    /\ portfolio_data = PDict(PortfolioOf1111)
    /\ \E stock_data_in \in StoreInputs(today) :
          /\ stock_data_in.fields.stocks.list # <<>>
          /\ folder = [f \in {FileNameOfDay(today)} |-> <<JsonText(to_json(stock_data_in))>>]
    /\ folder_at_start = folder
    /\ FreshProcess

SpecReuse == InitReuse /\ [][NextRun]_vars

(***************************************************************************)
(* StockScraper called once per process, on any answer of the site, with  *)
(* the indicators table fetched before or not.                            *)
(***************************************************************************)
InitScrapeOne ==
    /\ today = BaseDay
    /\ run = 0
    /\ keep_last_files_count = 1
    /\ stocks_to_scrape = <<1111>>
    /\ portfolio_data = PNone
    /\ folder = <<>>
    /\ folder_at_start = folder
    /\ FreshProcess

\* stock_scraper.scrape_financial_indicators() as the first call.
IndicatorsFirst ==
    /\ pc = "ready"
    /\ calls = <<>>
    /\ \E response \in IndicatorsResponses :
          LET fi == scrape_financial_indicators(fi_cache, response, today)
          IN /\ fi_cache' = fi.cache
             /\ calls' = Append(calls, [op |-> "scrape_financial_indicators",
                                        arg |-> response, out |-> Returned(fi.out)])
             /\ requests' = requests \o (IF fi.requested
                                         THEN <<[url |-> "indicators", code |-> 0]>>
                                         ELSE <<>>)
    /\ UNCHANGED <<pollVars, today, run, configVars, folder, folder_at_start, pc, load_cache,
                   localVars>>

\* stock_scraper.scrape_one(stock_code), once.
ScrapeOneCall ==
    /\ pc = "ready"
    /\ \A i \in 1..Len(calls) : calls[i].op # "scrape_one"
    /\ \E site \in ScrapeSites :
          LET r == scrape_one(stocks_to_scrape[1], Now, today, site, fi_cache)
          IN /\ fi_cache' = r.cache
             /\ requests' = requests \o r.requests
             /\ calls' = Append(calls, [op |-> "scrape_one", arg |-> site,
                                        cached |-> fi_cache, out |-> r.out,
                                        requests |-> r.requests])
    /\ UNCHANGED <<pollVars, today, run, configVars, folder, folder_at_start, pc, load_cache,
                   localVars>>

NextScrapeOne == Construct \/ IndicatorsFirst \/ ScrapeOneCall \/ NextInvocation

SpecScrapeOne == InitScrapeOne /\ [][NextScrapeOne]_vars

(***************************************************************************)
(* StockScraper called any number of times in one process.                 *)
(***************************************************************************)
MemoPages == {GoodPage, FailedPage, NoGroupPage}
MemoResponses == {GoodIndicators, FailedIndicators, NoMatchIndicators}

InitMemo ==
    /\ today = BaseDay
    /\ run = 0
    /\ keep_last_files_count = 1
    /\ stocks_to_scrape = <<1111, 2222>>
    /\ portfolio_data = PNone
    /\ folder = <<>>
    /\ folder_at_start = folder
    /\ FreshProcess

\* A call of the scraper went from cache to r while the indicators page was
\* answering indicators: the log takes it, and an exception ends the process.
Called(op, arg, indicators, r) ==
    /\ fi_cache' = r.cache
    /\ requests' = requests \o r.requests
    /\ calls' = Append(calls, [op |-> op, arg |-> arg, indicators |-> indicators,
                               out |-> r.out, requests |-> r.requests])
    /\ pc' = IF IsRaised(r.out) THEN "crashed" ELSE pc
    /\ UNCHANGED <<pollVars, today, run, configVars, folder, folder_at_start, load_cache,
                   localVars>>

MemoScrapeOne ==
    /\ pc = "ready"
    /\ Len(calls) < MaxCalls
    /\ \E page \in MemoPages, indicators \in MemoResponses :
          Called("scrape_one", page, indicators,
                 scrape_one(stocks_to_scrape[1], Now, today,
                            [page |-> page, benchmark |-> GoodBenchmark,
                             indicators |-> indicators], fi_cache))

MemoScrapeList ==
    /\ pc = "ready"
    /\ Len(calls) < MaxCalls
    /\ \E pages \in [1..2 -> {GoodPage, FailedPage}], indicators \in MemoResponses :
          Called("scrape_list", pages, indicators,
                 scrape_list(stocks_to_scrape, Now, today,
                             [j \in 1..2 |-> [page |-> pages[j],
                                              benchmark |-> GoodBenchmark,
                                              indicators |-> indicators]], fi_cache))

MemoIndicators ==
    /\ pc = "ready"
    /\ Len(calls) < MaxCalls
    /\ \E indicators \in MemoResponses :
          LET fi == scrape_financial_indicators(fi_cache, indicators, today)
          IN Called("scrape_financial_indicators", PNone, indicators,
                    [cache |-> fi.cache, out |-> Returned(fi.out),
                     requests |-> IF fi.requested
                                  THEN <<[url |-> "indicators", code |-> 0]>>
                                  ELSE <<>>])

NextMemo == Construct \/ MemoScrapeOne \/ MemoScrapeList \/ MemoIndicators

SpecMemo == InitMemo /\ [][NextMemo]_vars

(***************************************************************************)
(* scrape_financial_indicators on any table of a few rows.                 *)
(***************************************************************************)
MaxRows == 4

\* The rows a table is made of: instrument rows, group rows, a group row that
\* has its first cell only, and an instrument row with a cell that is no number.
RowKinds ==
    {InstrumentRow("ALPHA"), InstrumentRow("BETA"), GroupRow("BANKS"), GroupRow("ENERGY"),
     <<PStr("BANKS")>>, DashRow("BETA")}

RECURSIVE RowsOfLength(_)
RowsOfLength(n) ==
    IF n = 0 THEN {<<>>}
    ELSE {Append(rows, row) : rows \in RowsOfLength(n - 1), row \in RowKinds}

TableRows == UNION {RowsOfLength(n) : n \in 0..MaxRows}

InitTable ==
    /\ today = BaseDay
    /\ run = 0
    /\ keep_last_files_count = 1
    /\ stocks_to_scrape = <<>>
    /\ portfolio_data = PNone
    /\ folder = <<>>
    /\ folder_at_start = folder
    /\ FreshProcess

\* The first call of scrape_financial_indicators of the process, the page
\* holding the table of the rows.
ParseIndicators ==
    /\ pc = "ready"
    /\ fi_cache = <<>>
    /\ \E rows \in TableRows :
          LET fi == scrape_financial_indicators(
                        fi_cache,
                        [status_code |-> 200, table |-> PList(<<TableHeaders>> \o rows)],
                        today)
          IN /\ fi_cache' = fi.cache
             /\ calls' = Append(calls, [op |-> "scrape_financial_indicators",
                                        arg |-> rows, out |-> Returned(fi.out)])
             /\ requests' = Append(requests, [url |-> "indicators", code |-> 0])
    /\ UNCHANGED <<pollVars, today, run, configVars, folder, folder_at_start, pc, load_cache,
                   localVars>>

NextTable == Construct \/ ParseIndicators \/ NextInvocation

SpecTable == InitTable /\ [][NextTable]_vars

(***************************************************************************)
(* The wait for the dividend table: __extract_stock_dividends calls        *)
(* __wait_for_dividend_table(dividends_table, 3, 0.5), which tests the     *)
(* clock, looks at the rows of the table and sleeps, until the rows are    *)
(* shown or the clock has passed end_time.  The clock counts half seconds. *)
(***************************************************************************)
\* The arguments of line 237: a timeout of 3 s and a poll_frequency of 0.5 s.
DividendTimeout == 6
PollFrequency == 1

\* The clock values at which a wait may start.
MaxStart == 2

\* The clock stops here; a wait that started by MaxStart has ended before.
MaxClock == MaxStart + DividendTimeout + PollFrequency + 3

\* A test of the deadline that never ends the wait.
TimedOutNever(clock, deadline) == FALSE

\* time.monotonic() > end_time
TimedOut(clock, deadline) == clock > deadline

\* What __extract_stock_dividends finds on the page after the wait: the rows
\* when the wait returned True, nothing when it returned False, and the
\* exception when looking at the rows raised.
DividendsAfterWait(waited) ==
    IF IsRaised(waited) THEN waited
    ELSE IF waited.returned = PBool(TRUE) THEN GoodData.dividends
    ELSE [timeout |-> TRUE]

InitPoll ==
    /\ today = BaseDay
    /\ run = 0
    /\ keep_last_files_count = 1
    /\ stocks_to_scrape \in {<<1111>>, <<2222>>}
    /\ portfolio_data = PNone
    /\ folder = <<>>
    /\ folder_at_start = folder
    /\ pc = "start"
    /\ load_cache = <<>>
    /\ fi_cache = <<>>
    /\ calls = <<>>
    /\ today_stock_data = PNone
    /\ stocks = <<>>
    /\ reused_from = <<>>
    /\ stock_data = PNone
    /\ requests = <<>>
    /\ monotonic \in 0..MaxStart
    /\ end_time = 0

\* end_time = time.monotonic() + timeout
BeginWait ==
    /\ pc = "ready"
    /\ end_time' = monotonic + DividendTimeout
    /\ pc' = "polling"
    /\ UNCHANGED <<today, run, configVars, folder, folder_at_start, load_cache, fi_cache,
                   calls, localVars, requests, monotonic>>

\* One pass of the loop up to the sleep: the test of the clock, then the look
\* at the rows, which takes time and may raise.
CheckTable ==
    /\ pc = "polling"
    /\ IF TimedOut(monotonic, end_time)
       THEN /\ calls' = Append(calls, [op |-> "wait_for_dividend_table",
                                       out |-> Returned(PBool(FALSE)), at |-> monotonic])
            /\ pc' = "waited"
            /\ UNCHANGED monotonic
       ELSE \E rows \in {"displayed", "hidden", "raised"}, took \in 0..1 :
               /\ monotonic' = monotonic + took
               /\ calls' = Append(calls, [op |-> "rows", at |-> monotonic, out |-> rows])
                             \o (CASE rows = "displayed" ->
                                        <<[op |-> "wait_for_dividend_table",
                                           out |-> Returned(PBool(TRUE)),
                                           at |-> monotonic + took]>>
                                   [] rows = "raised" ->
                                        <<[op |-> "wait_for_dividend_table",
                                           out |-> Raised("NoSuchElementException"),
                                           at |-> monotonic + took]>>
                                   [] rows = "hidden" -> <<>>)
               /\ pc' = IF rows = "hidden" THEN "sleeping" ELSE "waited"
    /\ UNCHANGED <<today, run, configVars, folder, folder_at_start, load_cache, fi_cache,
                   localVars, requests, end_time>>

\* time.sleep(poll_frequency): at least poll_frequency passes.
Sleep ==
    /\ pc = "sleeping"
    /\ \E slept \in PollFrequency..(PollFrequency + 1) :
          /\ monotonic + slept <= MaxClock
          /\ monotonic' = monotonic + slept
    /\ pc' = "polling"
    /\ UNCHANGED <<today, run, configVars, folder, folder_at_start, load_cache, fi_cache,
                   calls, localVars, requests, end_time>>

\* The rest of scrape_one, on a page that is good but for its dividend table.
FinishScrape ==
    /\ pc = "waited"
    /\ \E benchmark \in {GoodBenchmark, FailedBenchmark} :
          LET waited == calls[Len(calls)].out
              site == [page |-> [status_code |-> 200,
                                 data |-> [GoodData EXCEPT
                                              !.dividends = DividendsAfterWait(waited)]],
                       benchmark |-> benchmark,
                       indicators |-> GoodIndicators]
              r == scrape_one(stocks_to_scrape[1], Now, today, site, fi_cache)
          IN /\ fi_cache' = r.cache
             /\ requests' = requests \o r.requests
             /\ calls' = Append(calls, [op |-> "scrape_one", arg |-> site,
                                        out |-> r.out, at |-> monotonic])
    /\ pc' = "done"
    /\ UNCHANGED <<today, run, configVars, folder, folder_at_start, load_cache,
                   localVars, pollVars>>

NextPoll == Construct \/ BeginWait \/ CheckTable \/ Sleep \/ FinishScrape

\* The process is one thread: the look at the rows returns or raises, and the
\* sleep returns.
SpecPoll == InitPoll /\ [][NextPoll]_vars /\ WF_vars(CheckTable) /\ WF_vars(Sleep)

(***************************************************************************)
(* Claims about startup pruning.                                           *)
(***************************************************************************)
Pruned == pc = "ready"

\* The file names of the retention window: today and the N-1 days before it.
WindowNames == {FileNameOfDay(today - i) : i \in 0..(keep_last_files_count - 1)}

\* The day a file name is the key of.
DayOfName(f) == CHOOSE o \in (BaseDay - MaxKeep - 1)..(BaseDay + MaxDay) : FileNameOfDay(o) = f

\* C1: after startup pruning the file with the greatest date key that existed
\* before pruning still exists, for every retention count (0 included) and
\* also when every file is older than the window; a non-empty cache is not
\* empty after pruning.
C1_LatestSurvives ==
    (Pruned /\ DOMAIN folder_at_start # {}) =>
        /\ MaxName(DOMAIN folder_at_start) \in DOMAIN folder
        /\ DOMAIN folder # {}

\* C1's case: pruning ran with every file older than the window, and removed
\* some file.
C1_Witness ==
    /\ Pruned
    /\ DOMAIN folder_at_start # {}
    /\ DOMAIN folder_at_start \cap WindowNames = {}
    /\ DOMAIN folder # DOMAIN folder_at_start
    /\ MaxName(DOMAIN folder_at_start) \in DOMAIN folder

\* C2: pruning is a set difference: the files after pruning are exactly the
\* existing files that are in the window W or are the greatest existing name L,
\* each with its content untouched.
C2_PruneIsSetDifference ==
    Pruned =>
        LET E == DOMAIN folder_at_start
            L == IF E = {} THEN {} ELSE {MaxName(E)}
        IN /\ DOMAIN folder = E \cap (WindowNames \cup L)
           /\ \A f \in DOMAIN folder : folder[f] = folder_at_start[f]

\* C2's case: pruning kept a file of the window and the latest file outside it,
\* and removed another.
C2_Witness ==
    /\ Pruned
    /\ \E f \in DOMAIN folder : f \in WindowNames /\ f # MaxName(DOMAIN folder_at_start)
    /\ \E f \in DOMAIN folder : f \notin WindowNames
    /\ \E f \in DOMAIN folder_at_start : f \notin DOMAIN folder

\* The n greatest names of a set (all of them when there are fewer).
RECURSIVE TopNames(_, _)
TopNames(names, n) ==
    IF n <= 0 \/ names = {} THEN {}
    ELSE {MaxName(names)} \cup TopNames(names \ {MaxName(names)}, n - 1)

\* C3 as stated: the survivors are exactly the N most-recent-by-key files
\* among those that existed, plus possibly the greatest file.
C3_SurvivorsAreNMostRecentFiles ==
    Pruned =>
        LET E == DOMAIN folder_at_start
            top == TopNames(E, keep_last_files_count)
            L == IF E = {} THEN {} ELSE {MaxName(E)}
        IN /\ top \subseteq DOMAIN folder
           /\ DOMAIN folder \subseteq top \cup L

\* C3, amended: a file that existed survives pruning iff its date is one of
\* the N most recent calendar dates (today and the N-1 days before it) or it
\* is the greatest file; no other file survives and none appears.
C3_SurvivorsAreFilesOfNMostRecentDates ==
    Pruned =>
        /\ DOMAIN folder \subseteq DOMAIN folder_at_start
        /\ \A f \in DOMAIN folder_at_start :
              f \in DOMAIN folder <=>
                 \/ /\ DayOfName(f) <= today
                    /\ DayOfName(f) > today - keep_last_files_count
                 \/ \A g \in DOMAIN folder_at_start : DayOfName(g) <= DayOfName(f)

\* C3's case: more than N files existed, all older than the window, and only
\* the greatest survived although N >= 2.
C3_Witness ==
    /\ Pruned
    /\ keep_last_files_count >= 2
    /\ Cardinality(DOMAIN folder_at_start) >= 2
    /\ Cardinality(DOMAIN folder) = 1

(***************************************************************************)
(* Claims about store and load.                                            *)
(***************************************************************************)
LastCall == calls[Len(calls)]

\* Call i is a store that returned and call i + 1 is a load.
StoreThenLoad(i) ==
    /\ i + 1 <= Len(calls)
    /\ calls[i].op = "store"
    /\ IsReturned(calls[i].out)
    /\ calls[i + 1].op = "load"

\* C4: store_stock_date(S) followed by a load of S.date yields a Snapshot
\* equal to S in every field, the value and type of the date and timestamp
\* fields included.
C4_StoreThenLoadYieldsOriginal ==
    \A i \in 1..Len(calls) :
        (StoreThenLoad(i) /\ calls[i + 1].arg = calls[i].arg.fields.date) =>
            calls[i + 1].out = Returned(calls[i].arg)

\* C5: the value R that store_stock_date(S) returns is the copy read back from
\* disk, and get_stock_data_by_date(R.date) returns a Snapshot equal to R.
C5_LoadOfReturnedDateYieldsReturned ==
    \A i \in 1..Len(calls) :
        (/\ StoreThenLoad(i)
         /\ IsObj(calls[i].out.returned)
         /\ calls[i + 1].arg = calls[i].out.returned.fields.date) =>
            calls[i + 1].out = calls[i].out

\* C6: a store that returns leaves the directory with one file for the
\* snapshot's date key, holding that snapshot alone, and every file of another
\* date as it was; storing what the file already holds changes nothing.
C6_StoreOverwritesItsFileOnly ==
    [][(/\ Len(calls') = Len(calls) + 1
        /\ calls'[Len(calls')].op = "store"
        /\ IsReturned(calls'[Len(calls')].out)) =>
           LET stored == calls'[Len(calls')].arg
               file_name == CivilFromDays(stored.fields.date.date)
           IN /\ DOMAIN folder' = DOMAIN folder \cup {file_name}
              /\ json_load(folder'[file_name]) = Returned(to_json(stored))
              /\ \A g \in DOMAIN folder : g # file_name => folder'[g] = folder[g]
              /\ (file_name \in DOMAIN folder
                    /\ json_load(folder[file_name]) = Returned(to_json(stored)))
                 => folder' = folder]_vars

\* C6's case: two stores of different snapshots on the same date, the second
\* over the first, with a file of another date beside them.
C6_Witness ==
    /\ Len(calls) >= 2
    /\ calls[Len(calls) - 1].op = "store" /\ IsReturned(calls[Len(calls) - 1].out)
    /\ LastCall.op = "store" /\ IsReturned(LastCall.out)
    /\ LastCall.arg # calls[Len(calls) - 1].arg
    /\ LastCall.arg.fields.date = calls[Len(calls) - 1].arg.fields.date
    /\ Cardinality(DOMAIN folder) >= 2
    /\ json_load(folder[CivilFromDays(LastCall.arg.fields.date.date)])
          = Returned(to_json(LastCall.arg))

\* A JSON text that forms a Snapshot: an object with a boolean all_success, a
\* date string and a list of instrument objects.
FormsSnapshot(content) ==
    /\ IsReturned(json_load(content))
    /\ LET data == json_load(content).returned
       IN /\ IsDict(data)
          /\ {"all_success", "date", "stocks"} \subseteq DOMAIN data.dict
          /\ IsBool(data.dict.all_success)
          /\ IsStr(data.dict.date)
          /\ IsList(data.dict.stocks)
          /\ \A j \in 1..Len(data.dict.stocks.list) : IsDict(data.dict.stocks.list[j])

\* C7: get_stock_data_by_date(date) raises nothing, returns None when the file
\* of the date is missing or malformed (no JSON, or JSON that does not form a
\* Snapshot), and returns a Snapshot only when a well-formed file exists.
C7_LoadAbsentUnlessWellFormed ==
    (Len(calls) > 0 /\ LastCall.op = "load" /\ ~IsStr(LastCall.arg)) =>
        LET file_name == strftime(LastCall.arg).returned
            well_formed == file_name \in DOMAIN folder /\ FormsSnapshot(folder[file_name])
        IN /\ IsReturned(LastCall.out)
           /\ ~well_formed => LastCall.out = Returned(PNone)
           /\ LastCall.out # Returned(PNone) => well_formed

\* C8: store_stock_date raises nothing, also when writing the file fails: it
\* returns a value or a sentinel.
C8_StoreNeverRaises ==
    \A i \in 1..Len(calls) :
        (calls[i].op = "store" /\ IsDate(calls[i].arg.fields.date)) =>
            IsReturned(calls[i].out)

(***************************************************************************)
(* Claims about get_today_stock_data.                                      *)
(***************************************************************************)
\* get_today_stock_data has just ended: it returned (the script is at the
\* merge) or it raised out of a scrape (the load is the last storage call).
AcquireEnded ==
    \/ pc = "merge"
    \/ pc = "crashed" /\ Len(calls) > 0 /\ LastCall.op = "load"

\* The number of requests of the instrument page of a code.
PageRequests(code) ==
    Cardinality({j \in 1..Len(requests) :
                    requests[j] = [url |-> "stock", code |-> code]})

\* C9: when no snapshot can be loaded for today, get_today_stock_data scrapes
\* every tracked code exactly once and returns a Snapshot dated today whose
\* i-th instrument has the i-th tracked code.
C9_NoSnapshotScrapesEveryCodeInOrder ==
    (AcquireEnded /\ IsNone(today_stock_data)) =>
        /\ pc = "merge"
        /\ IsObj(stock_data)
        /\ stock_data.fields.date = PDate(today)
        /\ Len(stock_data.fields.stocks.list) = Len(stocks_to_scrape)
        /\ \A i \in 1..Len(stocks_to_scrape) :
              /\ stock_data.fields.stocks.list[i].fields.code = PNum(stocks_to_scrape[i])
              /\ PageRequests(stocks_to_scrape[i]) = 1

IsTracked(s) == \E k \in 1..Len(stocks_to_scrape) : s.fields.code = PNum(stocks_to_scrape[k])

\* get_today_stock_data has returned from the branch of a cached snapshot with
\* all_success true.
ReturnedFromAllSuccess ==
    /\ pc = "merge"
    /\ IsObj(today_stock_data)
    /\ today_stock_data.fields.all_success = PBool(TRUE)

\* C10: when today's cached snapshot has all_success true, get_today_stock_data
\* requests nothing and returns the cached instruments whose code is tracked, as
\* they are in the file and in its order, and no others.
C10_AllSuccessFiltersCacheWithoutScraping ==
    ReturnedFromAllSuccess =>
        /\ requests = <<>>
        /\ today_stock_data
              = get_stock_date_from_file(folder, FileNameOfDay(today))
        /\ stock_data.fields.stocks.list
              = SelectSeq(today_stock_data.fields.stocks.list, IsTracked)

\* C10's case: the cache holds a tracked code after an untracked one, and a
\* tracked code is absent from the cache.
C10_Witness ==
    /\ ReturnedFromAllSuccess
    /\ Len(today_stock_data.fields.stocks.list) = 2
    /\ ~IsTracked(today_stock_data.fields.stocks.list[1])
    /\ Len(stock_data.fields.stocks.list) = 1
    /\ \E k \in 1..Len(stocks_to_scrape) :
          \A j \in 1..2 :
              today_stock_data.fields.stocks.list[j].fields.code # PNum(stocks_to_scrape[k])

\* get_today_stock_data has just ended in the branch of a cached snapshot with
\* all_success false.
EndedFromPartialFailure ==
    /\ AcquireEnded
    /\ IsObj(today_stock_data)
    /\ today_stock_data.fields.all_success = PBool(FALSE)

\* The cached stocks of a code whose verdict is true.
CachedSuccesses(code) ==
    {j \in 1..Len(today_stock_data.fields.stocks.list) :
        /\ today_stock_data.fields.stocks.list[j].fields.code = PNum(code)
        /\ today_stock_data.fields.stocks.list[j].fields.success_scraping = PBool(TRUE)}

\* The reuse-or-scrape rule for the i-th tracked code.
ReusedIffCachedSuccess(i) ==
    IF CachedSuccesses(stocks_to_scrape[i]) # {}
    THEN /\ PageRequests(stocks_to_scrape[i]) = 0
         /\ \E j \in CachedSuccesses(stocks_to_scrape[i]) :
               stock_data.fields.stocks.list[i] = today_stock_data.fields.stocks.list[j]
    ELSE PageRequests(stocks_to_scrape[i]) = 1

\* C11: when today's cached snapshot has all_success false, get_today_stock_data
\* returns, for each tracked code, the cached Instrument unchanged and
\* unscraped when the cache holds it with verdict true, and scrapes the code
\* exactly once otherwise.
C11_PartialFailureReusesOrScrapesOnce ==
    EndedFromPartialFailure =>
        /\ pc = "merge"
        /\ Len(stock_data.fields.stocks.list) = Len(stocks_to_scrape)
        /\ \A i \in 1..Len(stocks_to_scrape) : ReusedIffCachedSuccess(i)

\* The part of C11 that is about the calls that returned.
C11_WhenReturned ==
    (EndedFromPartialFailure /\ pc = "merge") =>
        /\ Len(stock_data.fields.stocks.list) = Len(stocks_to_scrape)
        /\ \A i \in 1..Len(stocks_to_scrape) : ReusedIffCachedSuccess(i)

\* C12: in every branch the all_success of the Snapshot get_today_stock_data
\* returns is the conjunction of the verdicts of the instruments of its list,
\* true for the empty list, whatever the flag of the cached snapshot.
C12_AllSuccessIsConjunctionOfReturnedVerdicts ==
    pc = "merge" =>
        stock_data.fields.all_success
            = PBool(\A j \in 1..Len(stock_data.fields.stocks.list) :
                       stock_data.fields.stocks.list[j].fields.success_scraping = PBool(TRUE))

\* C12's case: the cached snapshot's flag is false and the returned flag, over
\* the instruments returned, is true.
C12_Witness ==
    /\ pc = "merge"
    /\ IsObj(today_stock_data)
    /\ today_stock_data.fields.all_success = PBool(FALSE)
    /\ stock_data.fields.all_success = PBool(TRUE)
    /\ Len(stock_data.fields.stocks.list) > 0

(***************************************************************************)
(* Claims about scrape_one.                                                *)
(***************************************************************************)
\* The calls of scrape_one made so far in the process.
ScrapeCalls == {i \in 1..Len(calls) : calls[i].op = "scrape_one"}

\* Every mandatory field of an Instrument resolved.
MandatoryResolved(f) ==
    /\ IsStr(f.name) /\ f.name # PStr("Unknown")
    /\ ~IsNone(f.sector)
    /\ ~IsNone(f.industry_group)
    /\ IsNum(f.price) /\ f.price.num >= 0
    /\ IsNum(f.week52_high) /\ f.week52_high.num >= 0
    /\ IsNum(f.week52_low) /\ f.week52_low.num >= 0
    /\ ~IsNone(f.dividends)

\* C13: for every Instrument scrape_one returns, the verdict is true iff every
\* mandatory field resolved (name not the unknown sentinel, sector and industry
\* group present, price and both 52-week bounds >= 0, dividend list present),
\* whatever the benchmark and the enrichment fields hold.
C13_VerdictIffMandatoryFieldsResolved ==
    \A i \in ScrapeCalls :
        IsReturned(calls[i].out) =>
            calls[i].out.returned.fields.success_scraping
                = PBool(MandatoryResolved(calls[i].out.returned.fields))

\* C13's case: an Instrument of verdict true with no benchmark value and no
\* enrichment.
C13_Witness ==
    \E i \in ScrapeCalls :
        /\ IsReturned(calls[i].out)
        /\ calls[i].out.returned.fields.success_scraping = PBool(TRUE)
        /\ calls[i].out.returned.fields.benchmark = Benchmark(PNone, PNone, PNone)
        /\ IsNone(calls[i].out.returned.fields.issued_shares)

\* C14: when the instrument page answers with a status other than 200,
\* scrape_one returns an Instrument with code, scraped_at and a false verdict
\* and nothing else, and the call requests no other page: no benchmark, no
\* indicators table.
C14_FailedPageShortCircuits ==
    \A i \in ScrapeCalls :
        calls[i].arg.page.status_code # 200 =>
            /\ calls[i].out = Returned(Stock([StockDefaults EXCEPT
                                  !.code = PNum(stocks_to_scrape[1]),
                                  !.scraped_at = Now,
                                  !.success_scraping = PBool(FALSE)]))
            /\ calls[i].requests = <<[url |-> "stock", code |-> stocks_to_scrape[1]]>>
            /\ fi_cache = calls[i].cached

\* C14's case: a failed page while the indicators table was never fetched and
\* the rest of the site would have answered.
C14_Witness ==
    \E i \in ScrapeCalls :
        /\ calls[i].arg.page.status_code # 200
        /\ calls[i].arg.benchmark = GoodBenchmark
        /\ calls[i].arg.indicators = GoodIndicators
        /\ calls[i].cached = <<>>
        /\ fi_cache = <<>>
        /\ requests = <<[url |-> "stock", code |-> stocks_to_scrape[1]]>>

\* What the selector k found on the page of call i, when it found something.
Found(i, k) == calls[i].arg.page.data[k].returned
Failed(i, k) == IsRaised(calls[i].arg.page.data[k])

\* C15: each field whose extraction failed holds its failure sentinel and every
\* other field holds the value scraped for it, whichever other extractions
\* failed; the verdict is false as soon as one failed.
C15_FieldExtractionIsIndependent ==
    \A i \in ScrapeCalls :
        (calls[i].arg.page.status_code = 200 /\ IsReturned(calls[i].out)) =>
            LET f == calls[i].out.returned.fields
            IN /\ f.name = IF Failed(i, "price_name") THEN PStr("Unknown")
                           ELSE Found(i, "price_name")
               /\ f.sector = IF Failed(i, "market_capital_li") THEN PNone
                             ELSE Found(i, "market_capital_li")
               /\ f.industry_group = IF Failed(i, "market_capital_li") THEN PNone
                                     ELSE Found(i, "market_capital_li")
               /\ f.price = IF Failed(i, "price") THEN PNum(-1) ELSE Found(i, "price")
               /\ f.week52_high = IF Failed(i, "week_52") THEN PNum(-1)
                                  ELSE Found(i, "week_52")[1]
               /\ f.week52_low = IF Failed(i, "week_52") THEN PNum(-1)
                                 ELSE Found(i, "week_52")[2]
               /\ IF Failed(i, "dividends") \/ "timeout" \in DOMAIN calls[i].arg.page.data.dividends
                  THEN IsNone(f.dividends) ELSE IsList(f.dividends)
               /\ (\E k \in Selectors : Failed(i, k)) => f.success_scraping = PBool(FALSE)

\* C15's case: the name was not found and the price was.
C15_Witness ==
    \E i \in ScrapeCalls :
        /\ calls[i].arg.page.status_code = 200
        /\ IsReturned(calls[i].out)
        /\ Failed(i, "price_name")
        /\ \A k \in Selectors \ {"price_name"} : ~Failed(i, k)
        /\ calls[i].out.returned.fields.name = PStr("Unknown")
        /\ calls[i].out.returned.fields.price = PNum(10)
        /\ calls[i].out.returned.fields.success_scraping = PBool(FALSE)

\* C16: scrape_one never raises: for every page, benchmark answer and state of
\* the indicators table it returns an Instrument with a boolean verdict.
C16_ScrapeOneNeverRaises ==
    \A i \in ScrapeCalls :
        /\ IsReturned(calls[i].out)
        /\ IsObj(calls[i].out.returned)
        /\ IsBool(calls[i].out.returned.fields.success_scraping)

\* The table the enrichment of call i joined with: the memoized one, or the one
\* parsed from the page answered to this call.
TableOfCall(i) ==
    IF calls[i].cached # <<>> THEN calls[i].cached[1]
    ELSE ScrapeFinancialIndicatorsBody(calls[i].arg.indicators, today)

\* The rows of the table whose name and industry group equal those of the
\* Instrument f, letter case aside.
JoinRows(table, f) ==
    IF IsNone(table) THEN {}
    ELSE {j \in 1..Len(table.fields.stocks.list) :
            LET s == table.fields.stocks.list[j].fields
            IN /\ IsStr(s.name) /\ IsStr(f.name)
               /\ IsStr(s.industry_group) /\ IsStr(f.industry_group)
               /\ Lower(s.name.str) = Lower(f.name.str)
               /\ Lower(s.industry_group.str) = Lower(f.industry_group.str)}

EnrichmentFields ==
    {"issued_shares", "net_profit", "shareholders_equity", "market_cap",
     "market_cap_percentage", "earnings_per_share", "book_value_per_share"}

MandatoryFields ==
    {"name", "sector", "industry_group", "price", "week52_high", "week52_low",
     "dividends", "success_scraping"}

\* The same call with the indicators table failing.
WithoutEnrichment(i) ==
    scrape_one(stocks_to_scrape[1], Now, today,
               [calls[i].arg EXCEPT !.indicators = FailedIndicators], <<>>).out

\* The outcome of call i is that of a best-effort join.
BestEffortJoin(i) ==
    LET f == calls[i].out.returned.fields
        rows == JoinRows(TableOfCall(i), f)
    IN /\ rows = {} =>
            /\ \A k \in EnrichmentFields : IsNone(f[k])
            /\ IsNone(f.benchmark.fields.p_e) /\ IsNone(f.benchmark.fields.p_b)
       /\ rows # {} =>
            \E j \in rows :
                LET s == TableOfCall(i).fields.stocks.list[j].fields
                IN /\ \A k \in EnrichmentFields : f[k] = s[k]
                   /\ f.benchmark.fields.p_e = s.benchmark.fields.p_e
                   /\ f.benchmark.fields.p_b = s.benchmark.fields.p_b
       /\ \A k \in MandatoryFields : f[k] = WithoutEnrichment(i).returned.fields[k]

\* C19: enrichment cannot fail an instrument: scrape_one returns, the
\* Instrument is enriched only from a row whose name and industry group equal
\* its own case-insensitively, the enrichment fields stay absent when the table
\* is a failure or no row matches, and the mandatory fields and the verdict are
\* those of the same scrape without enrichment.
C19_EnrichmentIsBestEffortJoin ==
    \A i \in ScrapeCalls :
        calls[i].arg.page.status_code = 200 =>
            IsReturned(calls[i].out) /\ BestEffortJoin(i)

\* The part of C19 that is about the calls that returned.
C19_WhenReturned ==
    \A i \in ScrapeCalls :
        (calls[i].arg.page.status_code = 200 /\ IsReturned(calls[i].out)) =>
            BestEffortJoin(i)

(***************************************************************************)
(* Claims about the indicators table.                                      *)
(***************************************************************************)
IndicatorsRequest == [url |-> "indicators", code |-> 0]

\* The calls during which the indicators page was requested.
Requesters ==
    {i \in 1..Len(calls) :
        \E j \in 1..Len(calls[i].requests) : calls[i].requests[j] = IndicatorsRequest}

\* C17: in one process, over any sequence of scrape_one, scrape_list and
\* scrape_financial_indicators calls, the indicators page is requested at most
\* once, and every call of scrape_financial_indicators returns what the first
\* request gave, a table or a failure, whatever the page would answer now.
C17_IndicatorsFetchedOnceAndFirstResultSticks ==
    /\ Cardinality({j \in 1..Len(requests) : requests[j] = IndicatorsRequest}) <= 1
    /\ \A i \in 1..Len(calls) :
          calls[i].op = "scrape_financial_indicators" =>
              \E k \in Requesters :
                  /\ k <= i
                  /\ \A other \in Requesters : k <= other
                  /\ calls[i].out = Returned(ScrapeFinancialIndicatorsBody(
                                                calls[k].indicators, today))

\* C17's case: the first request failed inside a scrape, and a later call of
\* scrape_financial_indicators returns the failure while the page would now
\* give a table.
C17_Witness ==
    /\ Len(calls) >= 2
    /\ calls[1].op \in {"scrape_one", "scrape_list"}
    /\ calls[1].indicators = FailedIndicators
    /\ 1 \in Requesters
    /\ calls[Len(calls)].op = "scrape_financial_indicators"
    /\ calls[Len(calls)].indicators = GoodIndicators
    /\ calls[Len(calls)].out = Returned(PNone)

\* A row with an empty price.
IsGroupRow(row) == Len(row) >= 2 /\ row[2] = PStr("")

\* The group rows after position r.
GroupRowsAfter(rows, r) == {q \in (r + 1)..Len(rows) : IsGroupRow(rows[q])}

\* The place among the parsed stocks of the instrument row at position r.
StockIndex(rows, r) == Cardinality({q \in 1..r : ~IsGroupRow(rows[q])})

\* The table was parsed from rows as the claim says.
TaggedByNearestFollowingGroup(rows, table) ==
    /\ Len(table.fields.stocks.list)
          = Cardinality({q \in 1..Len(rows) : ~IsGroupRow(rows[q])})
    /\ \A r \in 1..Len(rows) :
          ~IsGroupRow(rows[r]) =>
              LET stock == table.fields.stocks.list[StockIndex(rows, r)].fields
                  after == GroupRowsAfter(rows, r)
              IN /\ stock.name = rows[r][1]
                 /\ IF after = {} THEN IsNone(stock.industry_group)
                    ELSE \E q \in after :
                            /\ \A other \in after : q <= other
                            /\ stock.industry_group = rows[q][1]

\* C18: in the parsed table a row with an empty price is a group row and no
\* instrument, and each instrument row followed by a group row carries the name
\* of the nearest group row after it; a later group row never replaces it.
C18_RowsTaggedByNearestFollowingGroup ==
    \A i \in 1..Len(calls) :
        (calls[i].op = "scrape_financial_indicators" /\ IsObj(calls[i].out.returned)) =>
            TaggedByNearestFollowingGroup(calls[i].arg, calls[i].out.returned)

\* C18's case: two instrument rows tagged by the group row after them, which a
\* second group row leaves as they are.
C18_Witness ==
    /\ Len(calls) = 1
    /\ calls[1].arg = <<InstrumentRow("ALPHA"), InstrumentRow("BETA"), GroupRow("BANKS"),
                        GroupRow("ENERGY")>>
    /\ IsObj(calls[1].out.returned)
    /\ Len(calls[1].out.returned.fields.stocks.list) = 2
    /\ calls[1].out.returned.fields.stocks.list[1].fields.industry_group = PStr("BANKS")
    /\ calls[1].out.returned.fields.stocks.list[2].fields.industry_group = PStr("BANKS")

(***************************************************************************)
(* Claims about the order of a run.                                        *)
(***************************************************************************)
\* The place of a step in the order the claim gives.
StepRank(op) ==
    CASE op = "load" -> 1
      [] op = "store" -> 2
      [] op = "merge" -> 3
      [] op = "render" -> 4

\* C20: in each run the cache is read, then written, then the portfolio is
\* merged, then the reports are rendered: the snapshot is written to the cache
\* before Portfolio Merge populates quantity_owned and cost_price.
C20_SnapshotStoredBeforePortfolioMerge ==
    /\ \A i, j \in 1..Len(calls) :
          i < j => StepRank(calls[i].op) < StepRank(calls[j].op)
    /\ \A i \in 1..Len(calls) :
          calls[i].op = "merge" => \E j \in 1..(i - 1) : calls[j].op = "store"
    /\ \A i \in 1..Len(calls) :
          (calls[i].op = "store" /\ IsNone(today_stock_data)) =>
              \A k \in 1..Len(calls[i].arg.fields.stocks.list) :
                  /\ IsNone(calls[i].arg.fields.stocks.list[k].fields.quantity_owned)
                  /\ IsNone(calls[i].arg.fields.stocks.list[k].fields.cost_price)

\* The row, one of rows[1:], makes the loop of lines 72-112 raise: it lacks the
\* price cell, or it is an instrument row that lacks a later cell.
RowRaises(row) ==
    \/ Len(row) < 2
    \/ Len(row) > Len(TableHeaders)
    \/ ~IsGroupRow(row) /\ Len(row) < Len(TableHeaders)

\* A cell of a numeric column that float() rejects.
HasUncastCell(row) == \E c \in 2..Len(row) : ~IsNum(row[c])

\* The fetch returned a failure.
IsFailure(call) == IsNone(call.out.returned)

IndicatorsCalls == {i \in 1..Len(calls) : calls[i].op = "scrape_financial_indicators"}

NumericFieldOfColumn ==
    [c \in {PRICE, ISSUED_SHARES, NET_INCOME, SHAREHOLDERS_EQUITY, MARKET_CAP,
            MARKET_CAP_PERCENTAGE, EARNINGS_PER_SHARE, BOOK_VALUE} |->
        CASE c = PRICE -> "price"
          [] c = ISSUED_SHARES -> "issued_shares"
          [] c = NET_INCOME -> "net_profit"
          [] c = SHAREHOLDERS_EQUITY -> "shareholders_equity"
          [] c = MARKET_CAP -> "market_cap"
          [] c = MARKET_CAP_PERCENTAGE -> "market_cap_percentage"
          [] c = EARNINGS_PER_SHARE -> "earnings_per_share"
          [] c = BOOK_VALUE -> "book_value_per_share"]

\* The value a numeric field takes from its cell.
CastOrAbsent(cell) == IF IsNum(cell) THEN cell ELSE PNone

RowChecks == {i \in 1..Len(calls) : calls[i].op = "rows"}
WaitResults == {i \in 1..Len(calls) : calls[i].op = "wait_for_dividend_table"}
WaitedScrapes == {i \in 1..Len(calls) : calls[i].op = "scrape_one" /\ "at" \in DOMAIN calls[i]}

\* What the wait does while it runs and what it returns: looks are at least
\* poll_frequency apart and none is made after end_time; False is returned
\* only after end_time, when no look found the rows displayed; and after False
\* the Stock has no dividend list and a false verdict.
WaitIsPolledAndTimed ==
    /\ \A i \in RowChecks : calls[i].at <= end_time
    /\ \A i, j \in RowChecks : i < j => calls[j].at >= calls[i].at + PollFrequency
    /\ Cardinality(RowChecks) <= (DividendTimeout \div PollFrequency) + 1
    /\ \A i \in WaitResults :
          /\ calls[i].out = Returned(PBool(FALSE)) =>
                /\ calls[i].at > end_time
                /\ \A j \in RowChecks : calls[j].out = "hidden"
          /\ (\A j \in RowChecks : calls[j].out = "hidden") =>
                calls[i].out = Returned(PBool(FALSE))
    /\ \A i \in WaitedScrapes :
          calls[i - 1].out = Returned(PBool(FALSE)) =>
             /\ IsReturned(calls[i].out)
             /\ IsNone(calls[i].out.returned.fields.dividends)
             /\ calls[i].out.returned.fields.success_scraping = PBool(FALSE)

\* C22: a wait for the dividend table that has begun ends, whatever the table
\* shows; it looks at the table at most once per poll interval, returns False
\* once the timeout has passed without the rows displayed, and that False
\* leaves the Stock without dividends and with a false verdict.
C22_DividendPollingTerminates ==
    /\ []WaitIsPolledAndTimed
    /\ (pc = "polling") ~> (pc = "waited")

\* C22's case: the rows stayed hidden at every look, seven looks in all, the wait
\* returned False after its end_time, and the Stock came back without
\* dividends, verdict false.
C22_Witness ==
    /\ pc = "done"
    /\ Cardinality(RowChecks) = (DividendTimeout \div PollFrequency) + 1
    /\ \A j \in RowChecks : calls[j].out = "hidden"
    /\ \E i \in WaitResults : calls[i].out = Returned(PBool(FALSE)) /\ calls[i].at > end_time
    /\ \E i \in WaitedScrapes :
          /\ IsReturned(calls[i].out)
          /\ IsNone(calls[i].out.returned.fields.dividends)
          /\ calls[i].out.returned.fields.success_scraping = PBool(FALSE)

(***************************************************************************)
(* Claims about the reuse of cached Stocks.                                *)
(***************************************************************************)
\* The loads of this process, and the snapshot the load cache holds for a load.
LoadCalls == {i \in 1..Len(calls) : calls[i].op = "load"}
MemoizedFor(date) == {load_cache[k].value : k \in {j \in 1..Len(load_cache) : load_cache[j].key = date}}

\* C23: Portfolio Merge writes to the new run's snapshot only; the cached
\* snapshot that get_stock_data_by_date loaded and memoized stays as the load
\* returned it.
C23_MergeLeavesLoadedSnapshotUnchanged ==
    \A i \in LoadCalls :
        IsReturned(calls[i].out) =>
            \A value \in MemoizedFor(calls[i].arg) : value = calls[i].out.returned

(***************************************************************************)
(* Claims about the size of the history.                                   *)
(***************************************************************************)
\* The snapshot files of the directory.
SnapshotFiles == DOMAIN folder

\* C24: with a retention count N of at least 1 and runs on days that do not go
\* back, each pruning and then storing today's snapshot, the directory holds
\* at most N + 1 snapshot files once a run has pruned, and so after every run.
C24_HistoryHoldsAtMostNPlusOneFiles ==
    (pc # "start" \/ run > 0) =>
        Cardinality(SnapshotFiles) <= keep_last_files_count + 1

\* C24's case: a later run has pruned and stored, and the directory holds
\* N + 1 files, the file of an earlier day among them.
C24_Witness ==
    /\ run > 0
    /\ pc = "done"
    /\ LastCall.op = "store" /\ IsReturned(LastCall.out)
    /\ Cardinality(SnapshotFiles) = keep_last_files_count + 1
    /\ Cardinality(DOMAIN folder_at_start) > keep_last_files_count
    /\ FileNameOfDay(today) \in SnapshotFiles
    /\ \E o \in Days : o < today /\ FileNameOfDay(o) \in SnapshotFiles

(***************************************************************************)
(* Claims about the runs of one day.                                       *)
(***************************************************************************)
\* The snapshot stored for today when this run began, as a load reads it.
StoredAtStart == get_stock_date_from_file(folder_at_start, FileNameOfDay(today))

\* The snapshot stored for today now.
StoredNow == get_stock_date_from_file(folder, FileNameOfDay(today))

\* The stored snapshot holds the code with a true verdict.
StoredWithSuccess(stored, code) ==
    \E j \in 1..Len(stored.fields.stocks.list) :
        /\ stored.fields.stocks.list[j].fields.code = PNum(code)
        /\ Truthy(stored.fields.stocks.list[j].fields.success_scraping)

StockPageRequests == {j \in 1..Len(requests) : requests[j].url = "stock"}

\* C25: in a run that finds a snapshot stored for today, no tracked code that
\* the snapshot holds with a true verdict is scraped; and when that snapshot
\* has all_success = true the run scrapes nothing (up to the store no page is
\* requested at all) and what it stores has all_success = true again.
C25_SameDayRunsDoNotScrapeAgain ==
    pc # "start" =>
        LET stored == StoredAtStart
        IN ~IsNone(stored) =>
              /\ \A k \in 1..Len(stocks_to_scrape) :
                    PageRequests(stocks_to_scrape[k]) # 0
                        => ~StoredWithSuccess(stored, stocks_to_scrape[k])
              /\ Truthy(stored.fields.all_success) =>
                    /\ StockPageRequests = {}
                    /\ pc # "done" => requests = <<>>
                    /\ \A i \in 1..Len(calls) :
                          calls[i].op = "store" =>
                             /\ calls[i].arg.fields.all_success = PBool(TRUE)
                             /\ IsReturned(calls[i].out) =>
                                    /\ ~IsNone(StoredNow)
                                    /\ StoredNow.fields.all_success = PBool(TRUE)

\* C25's case: a later run of the day found 1111 stored with a true verdict
\* and 2222 with a false one, scraped 2222 once and 1111 not at all, and left
\* a snapshot with all_success = true for the runs after it.
C25_Witness ==
    /\ run > 0
    /\ pc = "done"
    /\ stocks_to_scrape = <<1111, 2222>>
    /\ ~IsNone(StoredAtStart)
    /\ StoredWithSuccess(StoredAtStart, 1111)
    /\ ~StoredWithSuccess(StoredAtStart, 2222)
    /\ ~Truthy(StoredAtStart.fields.all_success)
    /\ PageRequests(1111) = 0
    /\ PageRequests(2222) = 1
    /\ ~IsNone(StoredNow)
    /\ StoredNow.fields.all_success = PBool(TRUE)

\* The case of C25's second half: a run that found all_success = true stored,
\* tracks a code the snapshot does not hold, and has stored again.
C25_AllSuccessRunReached ==
    /\ run > 0
    /\ pc = "done"
    /\ ~IsNone(StoredAtStart)
    /\ Truthy(StoredAtStart.fields.all_success)
    /\ \E k \in 1..Len(stocks_to_scrape) :
          \A j \in 1..Len(StoredAtStart.fields.stocks.list) :
              StoredAtStart.fields.stocks.list[j].fields.code # PNum(stocks_to_scrape[k])
    /\ \E i \in 1..Len(calls) : calls[i].op = "store" /\ IsReturned(calls[i].out)

(***************************************************************************)
(* Claims about the load memo.                                             *)
(***************************************************************************)
\* What a load of the date reads from the directory as it is now.
OnDisk(date) == get_stock_date_from_file(folder, strftime(date).returned)

\* C26: get_stock_data_by_date(d) returns what the file of d's date key holds
\* when the call is made (None when there is no file), also when the same
\* argument was loaded before the file was last written.
C26_LoadNeverOlderThanFile ==
    (Len(calls) > 0 /\ LastCall.op = "load" /\ IsReturned(LastCall.out)) =>
        LastCall.out.returned = OnDisk(LastCall.arg)
=============================================================================
